---- MODULE Spec2Model ----
(***************************************************************************)
(* Rent vs. Buy vs. Buy & Rent Out calculator (src/rent_vs_buy_app.py).    *)
(*                                                                         *)
(* The program is a straight-line script: sidebar inputs, shared initial   *)
(* calculations, the Buy & Occupy year loop and sale, Rent & Invest, the   *)
(* Buy & Rent Out year loop and sale, and the conclusion.  The model keeps *)
(* the script's variable names.                                            *)
(*                                                                         *)
(* Number representation (the script uses binary floating point):          *)
(*   - money is an integer number of cents (CENTS per dollar);             *)
(*   - a rate is an integer number of thousandths of a percent, the step   *)
(*     of the finest rate slider (Mortgage Interest Rate, line 145): the   *)
(*     decimal rate the script obtains with "percent / 100.0" is           *)
(*     rate / RATE_SCALE, so 7.188% is 7188;                               *)
(*   - every product money * rate is rounded to the nearest cent.          *)
(* All values stay below 2^31.                                             *)
(***************************************************************************)
EXTENDS Integers, Sequences, FiniteSets, TLC

(***************************************************************************)
(* Fixed-point arithmetic.  An operator that uses an argument more than    *)
(* once takes its value first: [x \in Int |-> e][a] is e with x the value  *)
(* of a.                                                                   *)
(***************************************************************************)
CENTS == 10 * 10

RATE_SCALE == 1000 * 100

\* Fixed-point scale of the compound factor (1 + rate)^nper inside npf_pmt.
POW_SCALE == 1000 * 1000 * 10

Max(a, b) == [p \in Int \X Int |-> IF p[1] >= p[2] THEN p[1] ELSE p[2]][<<a, b>>]

Min(a, b) == [p \in Int \X Int |-> IF p[1] <= p[2] THEN p[1] ELSE p[2]][<<a, b>>]

Abs(a) == [x \in Int |-> IF x < 0 THEN -x ELSE x][a]

\* a * b / c for a, b >= 0 and b, c < 2^20, rounded to nearest.  With
\* a = q * c + r and r = r1 * 1024 + r0 the product is
\* q * b * c + (r1 * b) * 1024 + r0 * b, and no intermediate value leaves 2^31.
MulDivPos(a, b, c) ==
    [x \in Int |->
        [h \in Int |->
            (x \div c) * b + (h \div c) * 1024
            + (((h % c) * 1024 + ((x % c) % 1024) * b + (c \div 2)) \div c)
        ][((x % c) \div 1024) * b]
    ][a]

\* a * b / c, any signs of a and b, c > 0, rounded to nearest (half away from 0).
MulDiv(a, b, c) ==
    [x \in Int |-> IF (x < 0) = (b < 0)
                   THEN MulDivPos(Abs(x), Abs(b), c)
                   ELSE -MulDivPos(Abs(x), Abs(b), c)][a]

\* a / b rounded to nearest, for a of any sign and b > 0.
DivRound(a, b) == MulDiv(a, 1, b)

\* amount * rate, the rate in thousandths of a percent.
MulRate(amount, rate) == MulDiv(amount, rate, RATE_SCALE)

\* amount * (1 + rate).
Grow(amount, rate) == [x \in Int |-> x + MulRate(x, rate)][amount]

\* amount * (1 + rate) ** n for an integer n >= 0.
RECURSIVE GrowN(_, _, _)
GrowN(amount, rate, n) ==
    IF n <= 0 THEN amount ELSE Grow(GrowN(amount, rate, n - 1), rate)

\* floor(a * b / c) for a, b >= 0 and 0 < c < 2^30, by binary expansion of b:
\* the pair <<q, r>> with q * c + r = a * b and 0 <= r < c.
RECURSIVE MulDivPair(_, _, _)
MulDivPair(a, b, c) ==
    IF b = 0 THEN <<0, 0>>
    ELSE [h \in Int \X Int |->
            LET q2 == 2 * h[1] + ((2 * h[2]) \div c)
                r2 == (2 * h[2]) % c
            IN  IF b % 2 = 0 THEN <<q2, r2>>
                ELSE <<q2 + (a \div c) + ((r2 + (a % c)) \div c), (r2 + (a % c)) % c>>
         ][MulDivPair(a, b \div 2, c)]

\* a * b / c for large non-negative operands, rounded to nearest.
MulDivBig(a, b, c) ==
    [t \in Int \X Int \X Int |->
        [p \in Int \X Int |-> IF 2 * p[2] >= t[3] THEN p[1] + 1 ELSE p[1]
        ][MulDivPair(t[1], t[2], t[3])]
    ][<<a, b, c>>]

(***************************************************************************)
(* Sidebar inputs (lines 96-194).  Money in cents, rates in 0.001 percent.  *)
(***************************************************************************)
Dollars(n) == n * CENTS

\* loan_amount = home_price - home_price * down_payment_rate (lines 198-199)
loan_amount_of(home_price, down_payment_rate) ==
    home_price - MulRate(home_price, down_payment_rate)

\* Time Horizon slider: min_value = 1, max_value = 30 (line 100).
MinTimeHorizon == 1

MaxTimeHorizon == 30

\* max_rent_years = max(1, time_horizon_years - 1) (line 123): the largest
\* value of the "Years Before Renting Out" slider, whose smallest value is 1.
max_rent_years(time_horizon_years) == Max(1, time_horizon_years - 1)

\* Assumption sets the sliders and number inputs can hold.
\*   typical : a financed condo with every tax in play, loan above the
\*             mortgage-interest limit, interest at the slider's initial
\*             7.188%
\*   cash    : 100% down payment (no loan), falling prices, low standard
\*             deduction, no vacancy and no management fee
\*   nocap   : 15-year loan at a high rate, mortgage-interest limit 0, fees
\*             carrying the property tax (co-op), no appreciation
\*   flat    : no growth, no fees, no taxes
Profiles ==
    { [ name |-> "typical",
        home_price |-> Dollars(1000000), down_payment_rate |-> 20000,
        interest_rate |-> 7188, loan_term_years |-> 30,
        monthly_fees |-> Dollars(1000), closing_costs_rate |-> 4000,
        rent_monthly |-> Dollars(4000),
        property_appreciation_rate |-> 3000, investment_return_rate |-> 7000,
        rent_growth_rate |-> 3000, maintenance_growth_rate |-> 3000,
        selling_costs_rate |-> 6000, prop_tax_portion_rate |-> 0,
        separate_prop_tax_annual |-> Dollars(15000),
        marginal_tax_rate |-> 40000, ltcg_tax_rate |-> 28000,
        recapture_tax_rate |-> 25000, standard_deduction |-> Dollars(30000),
        mortgage_interest_limit |-> Dollars(750000), salt_cap |-> Dollars(10000),
        vacancy_rate |-> 5000, prop_mgmt_fee_rate |-> 10000,
        annual_landlord_costs |-> Dollars(1000), land_value_rate |-> 20000 ],
      [ name |-> "cash",
        home_price |-> Dollars(500000), down_payment_rate |-> 100000,
        interest_rate |-> 7000, loan_term_years |-> 20,
        monthly_fees |-> Dollars(500), closing_costs_rate |-> 3000,
        rent_monthly |-> Dollars(3000),
        property_appreciation_rate |-> -5000, investment_return_rate |-> 5000,
        rent_growth_rate |-> 2000, maintenance_growth_rate |-> 2000,
        selling_costs_rate |-> 7000, prop_tax_portion_rate |-> 25000,
        separate_prop_tax_annual |-> Dollars(15000),
        marginal_tax_rate |-> 30000, ltcg_tax_rate |-> 20000,
        recapture_tax_rate |-> 25000, standard_deduction |-> Dollars(5000),
        mortgage_interest_limit |-> Dollars(750000), salt_cap |-> Dollars(10000),
        vacancy_rate |-> 0, prop_mgmt_fee_rate |-> 0,
        annual_landlord_costs |-> 0, land_value_rate |-> 50000 ],
      [ name |-> "nocap",
        home_price |-> Dollars(400000), down_payment_rate |-> 50000,
        interest_rate |-> 15000, loan_term_years |-> 15,
        monthly_fees |-> Dollars(2000), closing_costs_rate |-> 10000,
        rent_monthly |-> Dollars(2500),
        property_appreciation_rate |-> 0, investment_return_rate |-> 15000,
        rent_growth_rate |-> 10000, maintenance_growth_rate |-> 10000,
        selling_costs_rate |-> 10000, prop_tax_portion_rate |-> 40000,
        separate_prop_tax_annual |-> 0,
        marginal_tax_rate |-> 25000, ltcg_tax_rate |-> 50000,
        recapture_tax_rate |-> 50000, standard_deduction |-> 0,
        mortgage_interest_limit |-> 0, salt_cap |-> Dollars(5000),
        vacancy_rate |-> 50000, prop_mgmt_fee_rate |-> 20000,
        annual_landlord_costs |-> Dollars(5000), land_value_rate |-> 0 ],
      [ name |-> "flat",
        home_price |-> Dollars(1000000), down_payment_rate |-> 20000,
        interest_rate |-> 6000, loan_term_years |-> 30,
        monthly_fees |-> 0, closing_costs_rate |-> 0,
        rent_monthly |-> Dollars(4000),
        property_appreciation_rate |-> 0, investment_return_rate |-> 0,
        rent_growth_rate |-> 0, maintenance_growth_rate |-> 0,
        selling_costs_rate |-> 6000, prop_tax_portion_rate |-> 0,
        separate_prop_tax_annual |-> 0,
        marginal_tax_rate |-> 0, ltcg_tax_rate |-> 0,
        recapture_tax_rate |-> 0, standard_deduction |-> Dollars(30000),
        mortgage_interest_limit |-> Dollars(750000), salt_cap |-> Dollars(10000),
        vacancy_rate |-> 5000, prop_mgmt_fee_rate |-> 10000,
        annual_landlord_costs |-> Dollars(1000), land_value_rate |-> 20000 ] }

\* The inputs as the script holds them once the sidebar has run: the Buy & Rent
\* Out inputs keep their initial 0 unless the property is a Condo and the
\* scenario was ticked (lines 111-136); the tax-portion slider is disabled for
\* a Condo and holds 0 (line 165).
SidebarInputs(profile, ptype, rent_out, horizon, occupied) ==
    [ profile EXCEPT
        !.prop_tax_portion_rate =
            IF ptype = "Condo" THEN 0 ELSE profile.prop_tax_portion_rate,
        !.vacancy_rate = IF rent_out THEN profile.vacancy_rate ELSE 0,
        !.prop_mgmt_fee_rate = IF rent_out THEN profile.prop_mgmt_fee_rate ELSE 0,
        !.annual_landlord_costs = IF rent_out THEN profile.annual_landlord_costs ELSE 0,
        !.land_value_rate = IF rent_out THEN profile.land_value_rate ELSE 0 ]
    @@ [ property_type        |-> ptype,
         model_rent_out       |-> rent_out,
         time_horizon_years   |-> horizon,
         years_before_renting |-> IF rent_out THEN occupied ELSE 0 ]

(***************************************************************************)
(* numpy_financial, as the script calls it.  A monthly rate is the annual  *)
(* rate (in 0.001 percent) over MONTHS_PER_YEAR * RATE_SCALE.  A loan's    *)
(* course is followed payment by payment in the pair                       *)
(* <<balance, interest paid so far>>.                                      *)
(***************************************************************************)
MONTHS_PER_YEAR == 12

\* balance * monthly_rate: the interest one month accrues on a balance.
MonthInterest(balance, annual_rate) ==
    MulDiv(balance, annual_rate, MONTHS_PER_YEAR * RATE_SCALE)

\* One payment month: the balance accrues a month of interest and is reduced
\* by the payment.
AmortStep(balance, annual_rate, pmt) ==
    [b \in Int |-> b + MonthInterest(b, annual_rate) - pmt][balance]

\* n <= MONTHS_PER_YEAR payment months from the pair `state`.
RECURSIVE AmortMonths(_, _, _, _)
AmortMonths(state, annual_rate, pmt, n) ==
    IF n <= 0 THEN state
    ELSE [s \in Int \X Int |-> AmortMonths(s, annual_rate, pmt, n - 1)
         ][<<AmortStep(state[1], annual_rate, pmt),
             state[2] + MonthInterest(state[1], annual_rate)>>]

\* n payment months from the pair `state`, a year at a time.
RECURSIVE AmortRun(_, _, _, _)
AmortRun(state, annual_rate, pmt, n) ==
    IF n <= 0 THEN state
    ELSE [s \in Int \X Int |->
            AmortRun(s, annual_rate, pmt, n - Min(n, MONTHS_PER_YEAR))
         ][AmortMonths(state, annual_rate, pmt, Min(n, MONTHS_PER_YEAR))]

\* npf.fv(monthly_rate, per, pmt, -pv) = pv*(1+r)^per - pmt*((1+r)^per - 1)/r for
\* an integer per >= 0, unrolled month by month.
npf_fv_formula(annual_rate, per, pmt, pv) ==
    AmortRun(<<pv, 0>>, annual_rate, pmt, per)[1]

\* (1 + monthly_rate) ** nper, scaled by POW_SCALE.
PowFactor(annual_rate, nper) == npf_fv_formula(annual_rate, nper, 0, POW_SCALE)

\* npf.pmt(monthly_rate, nper, -loan_amount): the level payment (positive).
\*   rate = 0: pv / nper;  else pv * rate * temp / (temp - 1), temp = (1+rate)^nper
npf_pmt_formula(annual_rate, nper, loan_amount) ==
    IF annual_rate = 0 THEN MulDivBig(loan_amount, 1, nper)
    ELSE [temp \in Int |->
            MonthInterest(MulDivBig(loan_amount, temp, temp - POW_SCALE), annual_rate)
         ][PowFactor(annual_rate, nper)]

\* Loan Term selectbox: options = [15, 20, 30] (line 146).
LoanTerms == {15, 20, 30}

\* Loans the helpers are called with on their own: no loan and a loan; no
\* interest, a usual and the highest rate.
HelperLoanAmounts == {0, Dollars(300000)}

HelperAnnualRates == {0, 6000, 7188, 15000}

HelperLoans ==
    { [ loan_amount |-> l, annual_rate |-> r, term_years |-> t ] :
        l \in HelperLoanAmounts, r \in HelperAnnualRates, t \in LoanTerms }

\* Tables of the formulas for the loans of the model, computed once: the level
\* payment of each loan (rate, periods, amount), and for each year of its term
\* the pair <<balance at the end of the year, interest paid in the year>>.
\* They hold exactly the values the formulas give; a loan not in the tables is
\* computed by the formulas.
LoanCases ==
    { <<p.interest_rate, p.loan_term_years * MONTHS_PER_YEAR,
        loan_amount_of(p.home_price, p.down_payment_rate)>> : p \in Profiles }
    \cup { <<h.annual_rate, h.term_years * MONTHS_PER_YEAR, h.loan_amount>> :
              h \in HelperLoans }

PmtTable == [ k \in LoanCases |-> npf_pmt_formula(k[1], k[2], k[3]) ]

RECURSIVE YearTable(_, _, _, _)
YearTable(rows, annual_rate, pmt, years) ==
    IF Len(rows) >= years THEN rows
    ELSE [s \in Int \X Int |-> YearTable(Append(rows, s), annual_rate, pmt, years)
         ][AmortMonths(<<rows[Len(rows)][1], 0>>, annual_rate, pmt, MONTHS_PER_YEAR)]

AmortTable ==
    [ k \in LoanCases |->
        YearTable(<<AmortMonths(<<k[3], 0>>, k[1], PmtTable[k], MONTHS_PER_YEAR)>>,
                  k[1], PmtTable[k], k[2] \div MONTHS_PER_YEAR) ]

\* The loans of the tables with this rate, payment and amount.
Tabled(annual_rate, pmt, pv) ==
    { k \in LoanCases : k[1] = annual_rate /\ k[3] = pv /\ PmtTable[k] = pmt }

npf_pmt(annual_rate, nper, loan_amount) ==
    IF <<annual_rate, nper, loan_amount>> \in LoanCases
    THEN PmtTable[<<annual_rate, nper, loan_amount>>]
    ELSE npf_pmt_formula(annual_rate, nper, loan_amount)

npf_fv(annual_rate, per, pmt, pv) ==
    LET tabled == { k \in Tabled(annual_rate, pmt, pv) :
                      per >= MONTHS_PER_YEAR /\ per <= k[2] }
    IN  IF tabled = {} THEN npf_fv_formula(annual_rate, per, pmt, pv)
        ELSE [k \in LoanCases |->
                AmortRun(<<AmortTable[k][per \div MONTHS_PER_YEAR][1], 0>>, annual_rate,
                         pmt, per % MONTHS_PER_YEAR)[1]
             ][CHOOSE c \in tabled : TRUE]

\* numpy_financial's _rbl(rate, per, pmt, pv) = fv(rate, per - 1, pmt, pv): the
\* balance still owed when payment month `per` falls due.
npf_rbl(annual_rate, per, pmt, loan_amount) ==
    npf_fv(annual_rate, per - 1, pmt, loan_amount)

\* npf.ipmt(monthly_rate, per, nper, pv = -loan_amount) for one period per >= 1:
\* the interest part of payment `per`, total_pmt = pmt(rate, nper, pv) and
\* ipmt = _rbl(rate, per, total_pmt, pv) * rate.  With the negative pv the
\* script passes, _rbl is the positive balance owed and the value is positive.
npf_ipmt(annual_rate, per, nper, loan_amount) ==
    MonthInterest(npf_rbl(annual_rate, per, npf_pmt(annual_rate, nper, loan_amount),
                          loan_amount), annual_rate)

\* The interest parts of the payments of the years first_year .. last_year of a
\* loan of the tables, added up year by year.
RECURSIVE SumYears(_, _, _)
SumYears(rows, first_year, last_year) ==
    IF first_year > last_year THEN 0
    ELSE rows[last_year][2] + SumYears(rows, first_year, last_year - 1)

\* np.sum(npf.ipmt(monthly_rate, np.arange(first, last), nper, pv = -loan_amount)):
\* the interest parts of the payments first .. last - 1, added up (positive,
\* as each part is).  The balance
\* due at `first` is computed once and carried from month to month.
npf_ipmt_sum(annual_rate, first, last, nper, loan_amount) ==
    [total_pmt \in Int |->
        LET tabled == { k \in Tabled(annual_rate, total_pmt, loan_amount) :
                          /\ k[2] = nper
                          /\ first % MONTHS_PER_YEAR = 1
                          /\ last % MONTHS_PER_YEAR = 1
                          /\ first >= 1 /\ last - 1 <= nper }
        IN  IF tabled = {}
            THEN AmortRun(<<npf_rbl(annual_rate, first, total_pmt, loan_amount), 0>>,
                          annual_rate, total_pmt, last - first)[2]
            ELSE SumYears(AmortTable[CHOOSE c \in tabled : TRUE],
                          (first \div MONTHS_PER_YEAR) + 1,
                          (last - 1) \div MONTHS_PER_YEAR)
    ][npf_pmt(annual_rate, nper, loan_amount)]

(***************************************************************************)
(* Helper functions of the script (lines 50-90).  Years are whole numbers, *)
(* so int(years * 12) is years * 12.                                       *)
(***************************************************************************)
\* Changed: the loan counts as paid off only after the end of the term.
calculate_loan_balance_late_payoff(loan_amount, annual_rate, term_years, years_passed) ==
    IF loan_amount <= 0 THEN 0
    ELSE IF years_passed <= 0 THEN loan_amount
    ELSE IF years_passed > term_years THEN 0
    ELSE [pmt \in Int |->
            Max(0, npf_fv(annual_rate, years_passed * MONTHS_PER_YEAR, pmt, loan_amount))
         ][npf_pmt(annual_rate, term_years * MONTHS_PER_YEAR, loan_amount)]

\* calculate_loan_balance(loan_amount, annual_rate, term_years, years_passed)
calculate_loan_balance(loan_amount, annual_rate, term_years, years_passed) ==
    IF loan_amount <= 0 THEN 0
    ELSE IF years_passed <= 0 THEN loan_amount
    ELSE IF years_passed >= term_years THEN 0
    ELSE LET periods_total  == term_years * MONTHS_PER_YEAR
             periods_passed == years_passed * MONTHS_PER_YEAR
         IN  [pmt \in Int |->
                [remaining_balance \in Int |->
                    IF remaining_balance > 0 THEN remaining_balance ELSE 0
                ][npf_fv(annual_rate, periods_passed, pmt, loan_amount)]
             ][npf_pmt(annual_rate, periods_total, loan_amount)]

\* Changed: the interval starts one payment period early.
InterestStartPeriod_early(start_year) == Max(1, start_year * MONTHS_PER_YEAR)

\* The first payment period counted for an interval starting at start_year
\* (lines 73, 76).
InterestStartPeriod(start_year) == Max(1, start_year * MONTHS_PER_YEAR + 1)

\* Changed: the end of the interval is not held to the loan term.
InterestEndPeriod_unclamped(term_years, end_year) == end_year * MONTHS_PER_YEAR + 1

\* One past the last payment period counted for an interval ending at end_year
\* (lines 74, 77).
InterestEndPeriod(term_years, end_year) ==
    Min(term_years * MONTHS_PER_YEAR + 1, end_year * MONTHS_PER_YEAR + 1)

\* calculate_interest_paid_over_period(loan_amount, annual_rate, term_years,
\*                                     start_year, end_year)
calculate_interest_paid_over_period(loan_amount, annual_rate, term_years, start_year, end_year) ==
    IF loan_amount <= 0 \/ start_year >= end_year THEN 0
    ELSE LET periods_total == term_years * MONTHS_PER_YEAR
             start_period  == InterestStartPeriod(start_year)
             end_period    == InterestEndPeriod(term_years, end_year)
         IN  IF start_period >= end_period THEN 0
             ELSE Abs(npf_ipmt_sum(annual_rate, start_period, end_period,
                                   periods_total, loan_amount))

(***************************************************************************)
(* Exceptions raised by numpy_financial.  flt.pmt: npf.pmt raises a        *)
(* ValueError for the loan (and so does npf.ipmt, which calls it);         *)
(* flt.ipmt_year = y: npf.ipmt raises for the payment periods of year y.   *)
(***************************************************************************)
\* The try/except of calculate_interest_paid_over_period (lines 79-88): an
\* exception leaves total_interest = 0.
interest_paid_under(flt, loan_amount, annual_rate, term_years, start_year, end_year) ==
    IF flt.pmt \/ flt.ipmt_year = end_year THEN 0
    ELSE calculate_interest_paid_over_period(loan_amount, annual_rate, term_years,
                                             start_year, end_year)

\* calculate_loan_balance calls npf.pmt outside any try (line 58), once it is
\* past its early returns (lines 52-54).
calculate_loan_balance_raises(flt, loan_amount, term_years, years_passed) ==
    /\ flt.pmt
    /\ loan_amount > 0
    /\ years_passed > 0
    /\ years_passed < term_years

(***************************************************************************)
(* Investment helpers of the script (lines 22-48).                         *)
(***************************************************************************)
\* Fixed-point scale of (1 + annual_growth_rate) ** (1/12) and its powers.
ROOT_SCALE == 1000 * 1000 * 100

\* a * b for two factors scaled by ROOT_SCALE.
MulRoot(a, b) == MulDivBig(a, b, ROOT_SCALE)

\* x ** n for a factor x scaled by ROOT_SCALE and an integer n >= 0, by squaring.
RECURSIVE PowRoot(_, _)
PowRoot(x, n) ==
    IF n = 0 THEN ROOT_SCALE
    ELSE [h \in Int |->
            IF n % 2 = 0 THEN MulRoot(h, h) ELSE MulRoot(MulRoot(h, h), x)
         ][PowRoot(x, n \div 2)]

\* The largest x in lo .. hi with x ** 12 <= target (lo ** 12 <= target).
RECURSIVE Root12Search(_, _, _)
Root12Search(lo, hi, target) ==
    IF lo >= hi THEN lo
    ELSE [mid \in Int |->
            IF PowRoot(mid, MONTHS_PER_YEAR) <= target
            THEN Root12Search(mid, hi, target)
            ELSE Root12Search(lo, mid - 1, target)
         ][(lo + hi + 1) \div 2]

\* monthly_growth_rate = (1 + annual_growth_rate)**(1/12) - 1 (line 28), scaled
\* by ROOT_SCALE, for an annual rate >= 0 in thousandths of a percent.
monthly_growth_rate_formula(annual_growth_rate) ==
    [one_plus \in Int |-> Root12Search(ROOT_SCALE, one_plus, one_plus) - ROOT_SCALE
    ][ROOT_SCALE + annual_growth_rate * (ROOT_SCALE \div RATE_SCALE)]

\* The rent growth rates of the assumption sets, with their monthly rates.
RentGrowthRates == { p.rent_growth_rate : p \in Profiles }

MonthlyGrowthTable ==
    [ g \in RentGrowthRates |-> monthly_growth_rate_formula(g) ]

monthly_growth_rate_of(annual_growth_rate) ==
    IF annual_growth_rate \in RentGrowthRates
    THEN MonthlyGrowthTable[annual_growth_rate]
    ELSE monthly_growth_rate_formula(annual_growth_rate)

\* calculate_average_monthly_value(initial_value, annual_growth_rate, years)
\* (lines 22-34): total_sum = initial * (1 - (1+m)^n) / (-m), average = total_sum / n.
calculate_average_monthly_value(initial_value, annual_growth_rate, years) ==
    IF annual_growth_rate = 0 THEN initial_value
    ELSE IF years <= 0 THEN initial_value
    ELSE [m \in Int |->
            IF m = 0 THEN initial_value
            ELSE LET total_periods == years * MONTHS_PER_YEAR
                 IN  [total_sum \in Int |-> DivRound(total_sum, total_periods)
                     ][MulDivBig(initial_value,
                                 PowRoot(ROOT_SCALE + m, total_periods) - ROOT_SCALE, m)]
         ][monthly_growth_rate_of(annual_growth_rate)]

\* Changed: one payment period per year instead of twelve.
calculate_fv_annuity_yearly(monthly_payment, annual_rate, years) ==
    IF years <= 0 \/ annual_rate < -RATE_SCALE THEN 0
    ELSE IF annual_rate = 0 THEN monthly_payment * years
    ELSE npf_fv_formula(annual_rate, years, -monthly_payment, 0)

\* calculate_fv_annuity(monthly_payment, annual_rate, years) (lines 36-43);
\* annual_rate < -1 is a rate below -100%.
calculate_fv_annuity(monthly_payment, annual_rate, years) ==
    IF years <= 0 \/ annual_rate < -RATE_SCALE THEN 0
    ELSE LET periods == years * MONTHS_PER_YEAR
         IN  IF annual_rate = 0 THEN monthly_payment * periods
             ELSE npf_fv_formula(annual_rate, periods, -monthly_payment, 0)

\* calculate_fv_lump_sum(present_value, annual_rate, years) (lines 45-48):
\* npf.fv(annual_rate, years, 0, -present_value), compounded yearly.
calculate_fv_lump_sum(present_value, annual_rate, years) ==
    IF years <= 0 THEN present_value
    ELSE GrowN(present_value, annual_rate, years)

(***************************************************************************)
(* Program state                                                           *)
(***************************************************************************)
VARIABLES
    inp,      \* the sidebar inputs (never written after the sidebar has run)
    shared,   \* Shared Initial Calculations (lines 197-211, 224-230)
    pc,       \* the part of the script that runs next
    year,     \* the loop variable `year`
    yr,       \* the per-year globals both year loops assign (annual_fees, ...)
    bo,       \* Scenario 1, Buying & Occupying: accumulators and outcome
    ro,       \* Scenario 3, Buying & Renting Out: accumulators and outcome
    call,     \* calls made to the loan helpers on their own (lines 50-90)
    ri,       \* Scenario 2, Renting & Investing (lines 297-313)
    concl,    \* the Conclusion (lines 488-520)
    runs,     \* the script runs completed so far and what the last one computed
    fault     \* which numpy_financial calls raise an exception

vars == <<inp, shared, pc, year, yr, bo, ro, call, ri, concl, runs, fault>>

(***************************************************************************)
(* Shared Initial Calculations (lines 197-211) and the year-1 property tax *)
(* (lines 224-230).                                                        *)
(***************************************************************************)
\* p_and_i (lines 202-211): the level monthly payment, 0 without a loan.
p_and_i_of(loan_amount, interest_rate, loan_term_years) ==
    IF loan_amount > 0 /\ interest_rate >= 0 /\ loan_term_years > 0
    THEN npf_pmt(interest_rate, loan_term_years * MONTHS_PER_YEAR, loan_amount)
    ELSE 0

\* total_prop_tax_y1_buy (lines 225-230).
total_prop_tax_y1_buy_of(i) ==
    IF i.property_type = "Co-op"
    THEN IF i.separate_prop_tax_annual = 0
         THEN MulRate(i.monthly_fees * MONTHS_PER_YEAR, i.prop_tax_portion_rate)
         ELSE i.separate_prop_tax_annual
    ELSE i.separate_prop_tax_annual

SharedCalculations(i) ==
    LET down_payment_amount  == MulRate(i.home_price, i.down_payment_rate)
        loan_amount          == loan_amount_of(i.home_price, i.down_payment_rate)
        closing_costs_amount == MulRate(i.home_price, i.closing_costs_rate)
    IN  [ down_payment_amount   |-> down_payment_amount,
          loan_amount           |-> loan_amount,
          closing_costs_amount  |-> closing_costs_amount,
          initial_cash_outlay   |-> down_payment_amount + closing_costs_amount,
          p_and_i               |-> p_and_i_of(loan_amount, i.interest_rate,
                                               i.loan_term_years),
          total_prop_tax_y1_buy |-> total_prop_tax_y1_buy_of(i) ]

\* The try/except around npf.pmt (lines 204-208): a ValueError leaves p_and_i = 0.
SharedCalculationsUnder(flt, i) ==
    IF flt.pmt THEN [ SharedCalculations(i) EXCEPT !.p_and_i = 0 ]
    ELSE SharedCalculations(i)

(***************************************************************************)
(* Owner-occupant tax saving of one year (lines 253-260, repeated at lines *)
(* 360-366).                                                               *)
(***************************************************************************)
\* deductible_interest_ratio = min(1.0, limit / loan) if loan > limit > 0 else 1.0,
\* kept as the fraction <<numerator, denominator>>.
deductible_interest_ratio_of(loan_amount, mortgage_interest_limit) ==
    IF loan_amount > mortgage_interest_limit /\ mortgage_interest_limit > 0
    THEN <<Min(loan_amount, mortgage_interest_limit), loan_amount>>
    ELSE <<1, 1>>

\* interest_paid_this_year * deductible_interest_ratio
deductible_interest_of(interest_paid_this_year, ratio) ==
    IF ratio[1] = ratio[2] THEN interest_paid_this_year
    ELSE MulDivBig(interest_paid_this_year, ratio[1], ratio[2])

\* tax_saving_this_year = max(0, itemized - standard_deduction) * marginal_tax_rate
tax_saving_of(itemized_deductions_this_year, standard_deduction, marginal_tax_rate) ==
    MulRate(Max(0, itemized_deductions_this_year - standard_deduction), marginal_tax_rate)

\* The condition guarding the year's tax-saving computation (lines 254, 361).
TaxSavingComputed(i, sh) == i.marginal_tax_rate > 0 /\ sh.loan_amount > 0

\* The assignments inside "if marginal_tax_rate > 0 and loan_amount > 0:"
\* (lines 256-260, 362-366), given the year's interest and property tax.
OwnerTaxSaving(i, sh, interest_paid, annual_prop_tax) ==
    LET ratio == deductible_interest_ratio_of(sh.loan_amount, i.mortgage_interest_limit)
        deductible_interest_this_year == deductible_interest_of(interest_paid, ratio)
        salt_deduction_this_year      == Min(annual_prop_tax, i.salt_cap)
        itemized_deductions_this_year ==
            deductible_interest_this_year + salt_deduction_this_year
    IN  [ deductible_interest_ratio     |-> ratio,
          deductible_interest_this_year |-> deductible_interest_this_year,
          salt_deduction_this_year      |-> salt_deduction_this_year,
          itemized_deductions_this_year |-> itemized_deductions_this_year,
          tax_saving_this_year          |->
              tax_saving_of(itemized_deductions_this_year, i.standard_deduction,
                            i.marginal_tax_rate) ]

(***************************************************************************)
(* Initial state: the sidebar has run and the shared calculations and the  *)
(* scenarios' zero initialisations (lines 215-239, 317-331) are done.      *)
(***************************************************************************)
PropertyTypes == {"Co-op", "Condo"}

\* The per-year globals before either loop has assigned them.
YearGlobals0 ==
    [ annual_fees |-> 0, annual_p_and_i |-> 0, annual_prop_tax |-> 0,
      gross_cost_this_year |-> 0,
      interest_paid_this_year |-> 0, deductible_interest_ratio |-> <<1, 1>>,
      deductible_interest_this_year |-> 0, salt_deduction_this_year |-> 0,
      itemized_deductions_this_year |-> 0, tax_saving_this_year |-> 0,
      is_owner_occupied_phase |-> FALSE,
      annual_gross_rent |-> 0, vacancy_loss |-> 0, management_fees |-> 0,
      effective_rent |-> 0, landlord_costs_this_year |-> 0,
      depreciation_this_year |-> 0, rental_expenses_for_tax |-> 0,
      taxable_net_rental_income |-> 0, rental_tax |-> 0, cash_expenses |-> 0,
      net_cash_flow_this_year_pre_tax |-> 0, net_cash_flow_this_year |-> 0 ]

BuyOccupy0(i, sh) ==
    [ current_fees |-> i.monthly_fees,
      current_prop_tax |-> sh.total_prop_tax_y1_buy,
      total_tax_savings_buy_occupy |-> 0,
      cumulative_gross_costs_buy_occupy |-> 0,
      cumulative_fees_buy_occupy |-> 0,
      cumulative_prop_tax_buy_occupy |-> 0,
      avg_monthly_tax_saving_buy_occupy |-> 0,
      avg_monthly_buy_cost_gross_occupy |-> 0,
      buy_occupy_avg_monthly_net_cost |-> 0,
      avg_monthly_p_and_i |-> 0,
      avg_monthly_fees_occupy |-> 0,
      avg_monthly_prop_tax_occupy |-> 0,
      future_property_value |-> 0,
      loan_balance_future |-> 0,
      selling_costs_amount |-> 0,
      buy_occupy_net_equity_before_tax |-> 0,
      buy_basis |-> 0,
      capital_gain_buy_occupy |-> 0,
      primary_residence_exclusion |-> 0,
      years_owned_last_5_buy_occupy |-> 0,
      exclusion_applies_buy_occupy |-> FALSE,
      applicable_exclusion_buy_occupy |-> 0,
      taxable_gain_buy_occupy |-> 0,
      total_capital_gains_tax_buy_occupy |-> 0,
      buy_occupy_net_equity_after_tax |-> 0,
      buy_occupy_net_financial_gain |-> 0 ]

RentOut0 ==
    [ total_tax_savings_buy_rent_occupied_phase |-> 0,
      cumulative_rental_net_cash_flow_after_tax |-> 0,
      total_depreciation_taken |-> 0,
      building_basis |-> 0,
      annual_depreciation |-> 0,
      current_fees_rent |-> 0,
      current_prop_tax_rent |-> 0,
      current_landlord_costs |-> 0,
      current_rental_income_monthly |-> 0,
      buy_rent_out_cumulative_rental_cash_flow_pre_tax |-> 0,
      buy_rent_out_cumulative_rental_tax |-> 0,
      net_equity_before_tax |-> 0,
      buy_rent_out_depreciation_recapture_tax |-> 0,
      adjusted_basis |-> 0,
      total_gain_on_sale |-> 0,
      capital_gain_portion |-> 0,
      years_occupied |-> 0,
      years_owned_last_5 |-> 0,
      start_year_of_last_5 |-> 0,
      owner_years_last_5 |-> 0,
      exclusion_applies |-> FALSE,
      buy_rent_out_applicable_exclusion |-> 0,
      buy_rent_out_taxable_capital_gain |-> 0,
      buy_rent_out_capital_gains_tax_on_sale |-> 0,
      buy_rent_out_total_tax_on_sale |-> 0,
      net_proceeds_after_tax |-> 0,
      buy_rent_out_total_tax_savings_occupied |-> 0,
      buy_rent_out_net_financial_gain |-> 0 ]

\* Scenario 2 before it has run: rent_invest_net_financial_gain = 0 (line 298).
RentInvest0 ==
    [ rent_invest_net_financial_gain |-> 0,
      initial_investment_rent |-> 0,
      avg_monthly_rent |-> 0,
      avg_monthly_investment_rent |-> 0,
      fv_initial_investment_rent |-> 0,
      fv_monthly_investments_rent |-> 0,
      total_fv_investments_rent |-> 0,
      total_principal_invested |-> 0,
      investment_gain |-> 0,
      investment_tax |-> 0,
      total_fv_investments_after_tax |-> 0 ]

\* The Conclusion before it has run.
Conclusion0 ==
    [ active_scenarios |-> <<>>, best_scenario |-> "", best_value |-> 0,
      is_close |-> FALSE, report |-> "" ]

\* No script run has completed.
Runs0 == [ completed |-> 0, last |-> <<>> ]

\* No call raises an exception.
NoFault == [ pmt |-> FALSE, ipmt_year |-> 0 ]

\* No helper has been called on its own.
NoCall ==
    [ fn |-> "none", loan_amount |-> 0, annual_rate |-> 0, term_years |-> 0,
      years_passed |-> 0, start_year |-> 0, end_year |-> 0, result |-> 0,
      total_interest |-> 0 ]

Init ==
    \E profile \in Profiles, ptype \in PropertyTypes, rent_out \in BOOLEAN,
       horizon \in MinTimeHorizon .. MaxTimeHorizon :
      \E occupied \in 1 .. max_rent_years(horizon) :
        /\ rent_out => ptype = "Condo"
        /\ ~rent_out => occupied = 1
        /\ inp = SidebarInputs(profile, ptype, rent_out, horizon, occupied)
        /\ shared = SharedCalculations(inp)
        /\ pc = "buy_occupy_loop"
        /\ year = 1
        /\ yr = YearGlobals0
        /\ bo = BuyOccupy0(inp, shared)
        /\ ro = RentOut0
        /\ call = NoCall
        /\ ri = RentInvest0
        /\ concl = Conclusion0
        /\ runs = Runs0
        /\ fault = NoFault

(***************************************************************************)
(* Scenario 1: Buying & Occupying.  One pass of the year loop, lines       *)
(* 240-265.                                                                *)
(***************************************************************************)
\* annual_p_and_i = p_and_i * 12 if p_and_i > 0 else 0
annual_p_and_i_of(p_and_i) == IF p_and_i > 0 THEN p_and_i * MONTHS_PER_YEAR ELSE 0

\* Changed: the property tax is added for a Co-op as well.
gross_cost_with_tax_always(property_type, annual_p_and_i, annual_fees, annual_prop_tax) ==
    annual_p_and_i + annual_fees + annual_prop_tax

\* gross_cost_this_year (lines 245-247): the property tax is added for a Condo.
gross_cost_of(property_type, annual_p_and_i, annual_fees, annual_prop_tax) ==
    IF property_type = "Condo"
    THEN annual_p_and_i + annual_fees + annual_prop_tax
    ELSE annual_p_and_i + annual_fees

BuyOccupyYear ==
    /\ pc = "buy_occupy_loop"
    /\ LET annual_fees          == bo.current_fees * MONTHS_PER_YEAR
           annual_p_and_i       == annual_p_and_i_of(shared.p_and_i)
           annual_prop_tax      == bo.current_prop_tax
           gross_cost_this_year ==
               gross_cost_of(inp.property_type, annual_p_and_i, annual_fees,
                             annual_prop_tax)
           interest_paid_this_year ==
               interest_paid_under(fault, shared.loan_amount,
                   inp.interest_rate, inp.loan_term_years, year - 1, year)
           saving == OwnerTaxSaving(inp, shared, interest_paid_this_year, annual_prop_tax)
           tax_saving_this_year ==
               IF TaxSavingComputed(inp, shared) THEN saving.tax_saving_this_year ELSE 0
       IN  /\ yr' = IF TaxSavingComputed(inp, shared)
                    THEN [ yr EXCEPT
                             !.annual_fees = annual_fees,
                             !.annual_p_and_i = annual_p_and_i,
                             !.annual_prop_tax = annual_prop_tax,
                             !.gross_cost_this_year = gross_cost_this_year,
                             !.interest_paid_this_year = interest_paid_this_year,
                             !.deductible_interest_ratio = saving.deductible_interest_ratio,
                             !.deductible_interest_this_year =
                                 saving.deductible_interest_this_year,
                             !.salt_deduction_this_year = saving.salt_deduction_this_year,
                             !.itemized_deductions_this_year =
                                 saving.itemized_deductions_this_year,
                             !.tax_saving_this_year = tax_saving_this_year ]
                    ELSE [ yr EXCEPT
                             !.annual_fees = annual_fees,
                             !.annual_p_and_i = annual_p_and_i,
                             !.annual_prop_tax = annual_prop_tax,
                             !.gross_cost_this_year = gross_cost_this_year,
                             !.tax_saving_this_year = 0 ]
           /\ bo' = [ bo EXCEPT
                        !.cumulative_gross_costs_buy_occupy = @ + gross_cost_this_year,
                        !.cumulative_fees_buy_occupy = @ + annual_fees,
                        !.cumulative_prop_tax_buy_occupy = @ + annual_prop_tax,
                        !.total_tax_savings_buy_occupy = @ + tax_saving_this_year,
                        !.current_fees = Grow(@, inp.maintenance_growth_rate),
                        !.current_prop_tax = Grow(@, inp.maintenance_growth_rate) ]
    /\ IF year < inp.time_horizon_years
       THEN year' = year + 1 /\ pc' = pc
       ELSE year' = year /\ pc' = "buy_occupy_averages"
    /\ UNCHANGED <<call, ri, concl, runs, fault, inp, shared, ro>>

\* After the loop, lines 267-275.
BuyOccupyAverages ==
    /\ pc = "buy_occupy_averages"
    /\ LET h == inp.time_horizon_years
           avg_annual_tax_saving_buy_occupy == DivRound(bo.total_tax_savings_buy_occupy, h)
           avg_saving == DivRound(avg_annual_tax_saving_buy_occupy, MONTHS_PER_YEAR)
           avg_gross  == DivRound(DivRound(bo.cumulative_gross_costs_buy_occupy, h),
                                  MONTHS_PER_YEAR)
       IN  bo' = [ bo EXCEPT
                     !.avg_monthly_tax_saving_buy_occupy = avg_saving,
                     !.avg_monthly_buy_cost_gross_occupy = avg_gross,
                     !.buy_occupy_avg_monthly_net_cost = avg_gross - avg_saving,
                     !.avg_monthly_p_and_i = shared.p_and_i,
                     !.avg_monthly_fees_occupy =
                         DivRound(DivRound(bo.cumulative_fees_buy_occupy, h),
                                  MONTHS_PER_YEAR),
                     !.avg_monthly_prop_tax_occupy =
                         DivRound(DivRound(bo.cumulative_prop_tax_buy_occupy, h),
                                  MONTHS_PER_YEAR) ]
    /\ pc' = "buy_occupy_outcome"
    /\ UNCHANGED <<call, ri, concl, runs, fault, inp, shared, year, yr, ro>>

(***************************************************************************)
(* Future Outcomes for Buy & Occupy, lines 278-294.                        *)
(***************************************************************************)
\* primary_residence_exclusion = 500000 (line 286), in dollars.
PRIMARY_RESIDENCE_EXCLUSION_DOLLARS == 500000

\* The "2 of the last 5 years" rule: the years looked back, and the years needed.
LAST_YEARS_WINDOW == 5

OWNER_YEARS_NEEDED == 2

\* Changed: a window of 5 years even when the horizon is shorter.
years_owned_last_5_fixed_window(time_horizon_years) == LAST_YEARS_WINDOW

\* years_owned_last_5 = min(5, time_horizon_years) (lines 288, 430)
years_owned_last_5_of(time_horizon_years) == Min(LAST_YEARS_WINDOW, time_horizon_years)

\* Changed: more than 2 years needed.
exclusion_applies_buy_occupy_strict(time_horizon_years) ==
    years_owned_last_5_of(time_horizon_years) > OWNER_YEARS_NEEDED

\* exclusion_applies_buy_occupy = years_owned_last_5_buy_occupy >= 2 (line 289)
exclusion_applies_buy_occupy_of(time_horizon_years) ==
    years_owned_last_5_of(time_horizon_years) >= OWNER_YEARS_NEEDED

\* home_price * ((1 + property_appreciation_rate) ** time_horizon_years)
future_property_value_of(home_price, property_appreciation_rate, time_horizon_years) ==
    GrowN(home_price, property_appreciation_rate, time_horizon_years)

\* max(0, future_property_value - selling_costs_amount - basis) (lines 285, 424)
capital_gain_of(future_property_value, selling_costs_amount, basis) ==
    Max(0, future_property_value - selling_costs_amount - basis)

\* max(0, gain - applicable exclusion) (lines 291, 436)
taxable_gain_of(gain, applicable_exclusion) == Max(0, gain - applicable_exclusion)

BuyOccupyOutcome ==
    /\ pc = "buy_occupy_outcome"
    /\ LET future_property_value ==
               future_property_value_of(inp.home_price, inp.property_appreciation_rate,
                                        inp.time_horizon_years)
           loan_balance_future ==
               calculate_loan_balance(shared.loan_amount, inp.interest_rate,
                                      inp.loan_term_years, inp.time_horizon_years)
           selling_costs_amount == MulRate(future_property_value, inp.selling_costs_rate)
           buy_occupy_net_equity_before_tax ==
               future_property_value - loan_balance_future - selling_costs_amount
           buy_basis == inp.home_price + shared.closing_costs_amount
           capital_gain_buy_occupy ==
               capital_gain_of(future_property_value, selling_costs_amount, buy_basis)
           primary_residence_exclusion == Dollars(PRIMARY_RESIDENCE_EXCLUSION_DOLLARS)
           years_owned_last_5_buy_occupy == years_owned_last_5_of(inp.time_horizon_years)
           exclusion_applies_buy_occupy ==
               exclusion_applies_buy_occupy_of(inp.time_horizon_years)
           applicable_exclusion_buy_occupy ==
               IF exclusion_applies_buy_occupy THEN primary_residence_exclusion ELSE 0
           taxable_gain_buy_occupy ==
               taxable_gain_of(capital_gain_buy_occupy, applicable_exclusion_buy_occupy)
           total_capital_gains_tax_buy_occupy ==
               MulRate(taxable_gain_buy_occupy, inp.ltcg_tax_rate)
           buy_occupy_net_equity_after_tax ==
               buy_occupy_net_equity_before_tax - total_capital_gains_tax_buy_occupy
       IN  bo' = IF calculate_loan_balance_raises(fault, shared.loan_amount,
                         inp.loan_term_years, inp.time_horizon_years)
                 THEN [ bo EXCEPT !.future_property_value = future_property_value ]
                 ELSE [ bo EXCEPT
                     !.future_property_value = future_property_value,
                     !.loan_balance_future = loan_balance_future,
                     !.selling_costs_amount = selling_costs_amount,
                     !.buy_occupy_net_equity_before_tax = buy_occupy_net_equity_before_tax,
                     !.buy_basis = buy_basis,
                     !.capital_gain_buy_occupy = capital_gain_buy_occupy,
                     !.primary_residence_exclusion = primary_residence_exclusion,
                     !.years_owned_last_5_buy_occupy = years_owned_last_5_buy_occupy,
                     !.exclusion_applies_buy_occupy = exclusion_applies_buy_occupy,
                     !.applicable_exclusion_buy_occupy = applicable_exclusion_buy_occupy,
                     !.taxable_gain_buy_occupy = taxable_gain_buy_occupy,
                     !.total_capital_gains_tax_buy_occupy =
                         total_capital_gains_tax_buy_occupy,
                     !.buy_occupy_net_equity_after_tax = buy_occupy_net_equity_after_tax,
                     !.buy_occupy_net_financial_gain =
                         buy_occupy_net_equity_after_tax - shared.initial_cash_outlay ]
    /\ pc' = IF calculate_loan_balance_raises(fault, shared.loan_amount,
                    inp.loan_term_years, inp.time_horizon_years)
             THEN "aborted" ELSE "rent_invest"
    /\ UNCHANGED <<call, ri, concl, runs, fault, inp, shared, year, yr, ro>>

(***************************************************************************)
(* Scenario 2: Renting & Investing, lines 297-313.                         *)
(***************************************************************************)
\* Changed: a rent above the buy cost is withdrawn from the investment.
avg_monthly_investment_rent_unfloored(avg_monthly_buy_cost_gross_occupy, avg_monthly_rent) ==
    avg_monthly_buy_cost_gross_occupy - avg_monthly_rent

\* avg_monthly_investment_rent = max(0, gross buy cost - rent) (line 302)
avg_monthly_investment_rent_of(avg_monthly_buy_cost_gross_occupy, avg_monthly_rent) ==
    Max(0, avg_monthly_buy_cost_gross_occupy - avg_monthly_rent)

\* investment_gain = max(0, total future value - principal) (line 308)
investment_gain_of(total_fv_investments_rent, total_principal_invested) ==
    Max(0, total_fv_investments_rent - total_principal_invested)

\* Changed: the whole gain is taken as tax.
investment_tax_whole_gain(investment_gain, ltcg_tax_rate) == investment_gain

\* investment_tax = investment_gain * ltcg_tax_rate (line 310)
investment_tax_of(investment_gain, ltcg_tax_rate) == MulRate(investment_gain, ltcg_tax_rate)

\* Lines 299-313 from the future values of the two streams:
\* v = <<avg_monthly_rent, avg_monthly_investment_rent,
\*       fv_initial_investment_rent, fv_monthly_investments_rent>>.
RentInvestFrom(i, initial_investment_rent, v) ==
    LET total_fv_investments_rent == v[3] + v[4]
        total_principal_invested ==
            initial_investment_rent + v[2] * MONTHS_PER_YEAR * i.time_horizon_years
    IN  [g \in Int |->
           [t \in Int |->
              [ rent_invest_net_financial_gain |->
                    (total_fv_investments_rent - t) - initial_investment_rent,
                initial_investment_rent |-> initial_investment_rent,
                avg_monthly_rent |-> v[1],
                avg_monthly_investment_rent |-> v[2],
                fv_initial_investment_rent |-> v[3],
                fv_monthly_investments_rent |-> v[4],
                total_fv_investments_rent |-> total_fv_investments_rent,
                total_principal_invested |-> total_principal_invested,
                investment_gain |-> g,
                investment_tax |-> t,
                total_fv_investments_after_tax |-> total_fv_investments_rent - t ]
           ][investment_tax_of(g, i.ltcg_tax_rate)]
        ][investment_gain_of(total_fv_investments_rent, total_principal_invested)]

\* Changed: the landlord's extra costs of Scenario 3 count as a buying cost.
RentInvestStreams_with_landlord_costs(i, initial_investment_rent, avg_monthly_buy_cost_gross_occupy) ==
    [r \in Int |->
       [m \in Int |->
          <<r, m,
            calculate_fv_lump_sum(initial_investment_rent, i.investment_return_rate,
                                  i.time_horizon_years),
            calculate_fv_annuity(m, i.investment_return_rate, i.time_horizon_years)>>
       ][avg_monthly_investment_rent_of(
            avg_monthly_buy_cost_gross_occupy
              + i.annual_landlord_costs \div MONTHS_PER_YEAR, r)]
    ][calculate_average_monthly_value(i.rent_monthly, i.rent_growth_rate,
                                      i.time_horizon_years)]

\* The two streams at the investment return rate (lines 300-305).
RentInvestStreams(i, initial_investment_rent, avg_monthly_buy_cost_gross_occupy) ==
    [r \in Int |->
       [m \in Int |->
          <<r, m,
            calculate_fv_lump_sum(initial_investment_rent, i.investment_return_rate,
                                  i.time_horizon_years),
            calculate_fv_annuity(m, i.investment_return_rate, i.time_horizon_years)>>
       ][avg_monthly_investment_rent_of(avg_monthly_buy_cost_gross_occupy, r)]
    ][calculate_average_monthly_value(i.rent_monthly, i.rent_growth_rate,
                                      i.time_horizon_years)]

\* Scenario 2 as a whole: what lines 297-313 assign.
RentInvestOf(i, initial_cash_outlay, avg_monthly_buy_cost_gross_occupy) ==
    [v \in Seq(Int) |-> RentInvestFrom(i, initial_cash_outlay, v)
    ][RentInvestStreams(i, initial_cash_outlay, avg_monthly_buy_cost_gross_occupy)]

RentInvest ==
    /\ pc = "rent_invest"
    /\ ri' = RentInvestOf(inp, shared.initial_cash_outlay,
                          bo.avg_monthly_buy_cost_gross_occupy)
    /\ pc' = "rent_out_setup"
    /\ UNCHANGED <<call, concl, runs, fault, inp, shared, year, yr, bo, ro>>

(***************************************************************************)
(* Scenario 3: Buying & Renting Out (Condo only), lines 333-454.           *)
(***************************************************************************)
\* Residential straight-line depreciation runs 27.5 years (lines 338, 379):
\* the period in half years.
DEPRECIATION_HALF_YEARS == 55

\* building_basis = home_price * (1 - land_value_rate)
building_basis_of(home_price, land_value_rate) ==
    home_price - MulRate(home_price, land_value_rate)

\* annual_depreciation = building_basis / 27.5 if building_basis > 0 else 0
annual_depreciation_of(building_basis) ==
    IF building_basis > 0 THEN MulDiv(building_basis, 2, DEPRECIATION_HALF_YEARS) ELSE 0

\* Changed: depreciation goes on past 27.5 years.
depreciation_this_year_uncapped(annual_depreciation, y, years_before_renting) ==
    annual_depreciation

\* depreciation_this_year = annual_depreciation if (year - years_before_renting) <= 27.5 else 0
depreciation_this_year_of(annual_depreciation, y, years_before_renting) ==
    IF 2 * (y - years_before_renting) <= DEPRECIATION_HALF_YEARS
    THEN annual_depreciation ELSE 0

\* Changed: the last occupied year already counts as rented.
is_owner_occupied_phase_strict(y, years_before_renting) == y < years_before_renting

\* is_owner_occupied_phase = year <= years_before_renting
is_owner_occupied_phase_of(y, years_before_renting) == y <= years_before_renting

\* "if property_type == "Condo" and model_rent_out:" (lines 333, 492)
RentOutModelled(i) == i.property_type = "Condo" /\ i.model_rent_out

\* Lines 334-343, or nothing when the scenario is not modelled.
RentOutSetup ==
    /\ pc = "rent_out_setup"
    /\ IF RentOutModelled(inp)
       THEN /\ ro' = [ ro EXCEPT
                         !.total_tax_savings_buy_rent_occupied_phase = 0,
                         !.cumulative_rental_net_cash_flow_after_tax = 0,
                         !.total_depreciation_taken = 0,
                         !.building_basis =
                             building_basis_of(inp.home_price, inp.land_value_rate),
                         !.annual_depreciation =
                             annual_depreciation_of(
                                 building_basis_of(inp.home_price, inp.land_value_rate)),
                         !.current_fees_rent = inp.monthly_fees,
                         !.current_prop_tax_rent = shared.total_prop_tax_y1_buy,
                         !.current_landlord_costs = inp.annual_landlord_costs,
                         !.current_rental_income_monthly = inp.rent_monthly ]
            /\ year' = 1
            /\ pc' = "rent_out_loop"
       ELSE /\ UNCHANGED <<ro, year>>
            /\ pc' = "conclusion"
    /\ UNCHANGED <<call, ri, concl, runs, fault, inp, shared, yr, bo>>

\* Changed: a rental loss is not taxed (floor at 0).
rental_tax_floored(taxable_net_rental_income, marginal_tax_rate) ==
    MulRate(Max(0, taxable_net_rental_income), marginal_tax_rate)

\* rental_tax = taxable_net_rental_income * marginal_tax_rate (line 392)
rental_tax_of(taxable_net_rental_income, marginal_tax_rate) ==
    MulRate(taxable_net_rental_income, marginal_tax_rate)

\* The rented-out phase of one year, lines 372-405, given the year's fees,
\* payments, property tax and interest.
RentedYear(i, r, y, annual_fees, annual_p_and_i, annual_prop_tax, interest_paid_this_year) ==
    LET annual_gross_rent == r.current_rental_income_monthly * MONTHS_PER_YEAR
        vacancy_loss      == MulRate(annual_gross_rent, i.vacancy_rate)
        management_fees   == MulRate(annual_gross_rent - vacancy_loss, i.prop_mgmt_fee_rate)
        effective_rent    == annual_gross_rent - vacancy_loss
        landlord_costs_this_year == r.current_landlord_costs
        depreciation_this_year ==
            depreciation_this_year_of(r.annual_depreciation, y, i.years_before_renting)
        rental_expenses_for_tax ==
            interest_paid_this_year + annual_prop_tax + annual_fees + management_fees
            + landlord_costs_this_year + depreciation_this_year
        taxable_net_rental_income == effective_rent - rental_expenses_for_tax
        rental_tax == rental_tax_of(taxable_net_rental_income, i.marginal_tax_rate)
        cash_expenses ==
            management_fees + landlord_costs_this_year + annual_fees + annual_prop_tax
            + annual_p_and_i
        net_cash_flow_this_year_pre_tax == effective_rent - cash_expenses
    IN  [ annual_gross_rent |-> annual_gross_rent,
          vacancy_loss |-> vacancy_loss,
          management_fees |-> management_fees,
          effective_rent |-> effective_rent,
          landlord_costs_this_year |-> landlord_costs_this_year,
          depreciation_this_year |-> depreciation_this_year,
          rental_expenses_for_tax |-> rental_expenses_for_tax,
          taxable_net_rental_income |-> taxable_net_rental_income,
          rental_tax |-> rental_tax,
          cash_expenses |-> cash_expenses,
          net_cash_flow_this_year_pre_tax |-> net_cash_flow_this_year_pre_tax,
          net_cash_flow_this_year |-> net_cash_flow_this_year_pre_tax - rental_tax ]

\* "Increment costs/income for next year", lines 409-412.
GrowRentOutLevels(i, r) ==
    [ r EXCEPT
        !.current_fees_rent = Grow(@, i.maintenance_growth_rate),
        !.current_prop_tax_rent = Grow(@, i.maintenance_growth_rate),
        !.current_landlord_costs = Grow(@, i.maintenance_growth_rate),
        !.current_rental_income_monthly = Grow(@, i.rent_growth_rate) ]

\* One pass of the year loop, lines 345-412.
RentOutYear ==
    /\ pc = "rent_out_loop"
    /\ LET is_owner_occupied_phase ==
               is_owner_occupied_phase_of(year, inp.years_before_renting)
           annual_fees     == ro.current_fees_rent * MONTHS_PER_YEAR
           annual_p_and_i  == annual_p_and_i_of(shared.p_and_i)
           annual_prop_tax == ro.current_prop_tax_rent
           interest_paid_this_year ==
               interest_paid_under(fault, shared.loan_amount,
                   inp.interest_rate, inp.loan_term_years, year - 1, year)
           common == [ yr EXCEPT
                         !.is_owner_occupied_phase = is_owner_occupied_phase,
                         !.annual_fees = annual_fees,
                         !.annual_p_and_i = annual_p_and_i,
                         !.annual_prop_tax = annual_prop_tax,
                         !.interest_paid_this_year = interest_paid_this_year ]
       IN  \/ /\ is_owner_occupied_phase
              /\ LET saving == OwnerTaxSaving(inp, shared, interest_paid_this_year,
                                              annual_prop_tax)
                     tax_saving_this_year ==
                         IF TaxSavingComputed(inp, shared)
                         THEN saving.tax_saving_this_year ELSE 0
                 IN  /\ yr' = IF TaxSavingComputed(inp, shared)
                              THEN [ common EXCEPT
                                       !.deductible_interest_ratio =
                                           saving.deductible_interest_ratio,
                                       !.deductible_interest_this_year =
                                           saving.deductible_interest_this_year,
                                       !.salt_deduction_this_year =
                                           saving.salt_deduction_this_year,
                                       !.itemized_deductions_this_year =
                                           saving.itemized_deductions_this_year,
                                       !.tax_saving_this_year = tax_saving_this_year ]
                              ELSE [ common EXCEPT !.tax_saving_this_year = 0 ]
                     /\ ro' = GrowRentOutLevels(inp,
                                [ ro EXCEPT
                                    !.total_tax_savings_buy_rent_occupied_phase =
                                        @ + tax_saving_this_year ])
           \/ /\ ~is_owner_occupied_phase
              /\ LET rented == RentedYear(inp, ro, year, annual_fees, annual_p_and_i,
                                          annual_prop_tax, interest_paid_this_year)
                 IN  /\ yr' = [ common EXCEPT
                                  !.annual_gross_rent = rented.annual_gross_rent,
                                  !.vacancy_loss = rented.vacancy_loss,
                                  !.management_fees = rented.management_fees,
                                  !.effective_rent = rented.effective_rent,
                                  !.landlord_costs_this_year =
                                      rented.landlord_costs_this_year,
                                  !.depreciation_this_year = rented.depreciation_this_year,
                                  !.rental_expenses_for_tax =
                                      rented.rental_expenses_for_tax,
                                  !.taxable_net_rental_income =
                                      rented.taxable_net_rental_income,
                                  !.rental_tax = rented.rental_tax,
                                  !.cash_expenses = rented.cash_expenses,
                                  !.net_cash_flow_this_year_pre_tax =
                                      rented.net_cash_flow_this_year_pre_tax,
                                  !.net_cash_flow_this_year =
                                      rented.net_cash_flow_this_year ]
                     /\ ro' = GrowRentOutLevels(inp,
                                [ ro EXCEPT
                                    !.total_depreciation_taken =
                                        @ + rented.depreciation_this_year,
                                    !.buy_rent_out_cumulative_rental_tax =
                                        @ + rented.rental_tax,
                                    !.buy_rent_out_cumulative_rental_cash_flow_pre_tax =
                                        @ + rented.net_cash_flow_this_year_pre_tax,
                                    !.cumulative_rental_net_cash_flow_after_tax =
                                        @ + rented.net_cash_flow_this_year ])
    /\ IF year < inp.time_horizon_years
       THEN year' = year + 1 /\ pc' = pc
       ELSE year' = year /\ pc' = "rent_out_sale"
    /\ UNCHANGED <<call, ri, concl, runs, fault, inp, shared, bo>>

(***************************************************************************)
(* Sale Calculation for Buy & Rent Out, lines 414-454.                     *)
(***************************************************************************)
\* start_year_of_last_5 = time_horizon_years - years_owned_last_5 (line 431)
start_year_of_last_5_of(time_horizon_years) ==
    time_horizon_years - years_owned_last_5_of(time_horizon_years)

\* owner_years_last_5 = max(0, min(years_occupied, time_horizon_years)
\*                             - start_year_of_last_5)            (line 432)
owner_years_last_5_of(time_horizon_years, years_occupied) ==
    Max(0, Min(years_occupied, time_horizon_years)
           - start_year_of_last_5_of(time_horizon_years))

\* exclusion_applies = owner_years_last_5 >= 2 (line 433)
exclusion_applies_of(time_horizon_years, years_occupied) ==
    owner_years_last_5_of(time_horizon_years, years_occupied) >= OWNER_YEARS_NEEDED

\* Changed: no floor at 0.
capital_gain_portion_unfloored(total_gain_on_sale, total_depreciation_taken) ==
    total_gain_on_sale - total_depreciation_taken

\* capital_gain_portion = max(0, total_gain_on_sale - total_depreciation_taken)
capital_gain_portion_of(total_gain_on_sale, total_depreciation_taken) ==
    Max(0, total_gain_on_sale - total_depreciation_taken)

\* Changed: the tax savings of the occupied years are left out.
buy_rent_out_net_financial_gain_no_savings(net_proceeds_after_tax, rental_cash_flow, tax_savings_occupied, initial_cash_outlay) ==
    net_proceeds_after_tax + rental_cash_flow - initial_cash_outlay

\* buy_rent_out_net_financial_gain (lines 449-452)
buy_rent_out_net_financial_gain_of(net_proceeds_after_tax, rental_cash_flow, tax_savings_occupied, initial_cash_outlay) ==
    net_proceeds_after_tax + rental_cash_flow + tax_savings_occupied - initial_cash_outlay

RentOutSale ==
    /\ pc = "rent_out_sale"
    /\ LET net_equity_before_tax ==
               bo.future_property_value - bo.loan_balance_future - bo.selling_costs_amount
           buy_rent_out_depreciation_recapture_tax ==
               MulRate(ro.total_depreciation_taken, inp.recapture_tax_rate)
           adjusted_basis == inp.home_price + shared.closing_costs_amount
           total_gain_on_sale ==
               capital_gain_of(bo.future_property_value, bo.selling_costs_amount,
                               adjusted_basis)
           capital_gain_portion ==
               capital_gain_portion_of(total_gain_on_sale, ro.total_depreciation_taken)
           years_occupied == inp.years_before_renting
           exclusion_applies ==
               exclusion_applies_of(inp.time_horizon_years, years_occupied)
           buy_rent_out_applicable_exclusion ==
               IF exclusion_applies THEN bo.primary_residence_exclusion ELSE 0
           buy_rent_out_taxable_capital_gain ==
               taxable_gain_of(capital_gain_portion, buy_rent_out_applicable_exclusion)
           buy_rent_out_capital_gains_tax_on_sale ==
               MulRate(buy_rent_out_taxable_capital_gain, inp.ltcg_tax_rate)
           buy_rent_out_total_tax_on_sale ==
               buy_rent_out_depreciation_recapture_tax
               + buy_rent_out_capital_gains_tax_on_sale
           net_proceeds_after_tax == net_equity_before_tax - buy_rent_out_total_tax_on_sale
       IN  ro' = [ ro EXCEPT
                     !.net_equity_before_tax = net_equity_before_tax,
                     !.buy_rent_out_depreciation_recapture_tax =
                         buy_rent_out_depreciation_recapture_tax,
                     !.adjusted_basis = adjusted_basis,
                     !.total_gain_on_sale = total_gain_on_sale,
                     !.capital_gain_portion = capital_gain_portion,
                     !.years_occupied = years_occupied,
                     !.years_owned_last_5 = years_owned_last_5_of(inp.time_horizon_years),
                     !.start_year_of_last_5 =
                         start_year_of_last_5_of(inp.time_horizon_years),
                     !.owner_years_last_5 =
                         owner_years_last_5_of(inp.time_horizon_years, years_occupied),
                     !.exclusion_applies = exclusion_applies,
                     !.buy_rent_out_applicable_exclusion =
                         buy_rent_out_applicable_exclusion,
                     !.buy_rent_out_taxable_capital_gain =
                         buy_rent_out_taxable_capital_gain,
                     !.buy_rent_out_capital_gains_tax_on_sale =
                         buy_rent_out_capital_gains_tax_on_sale,
                     !.buy_rent_out_total_tax_on_sale = buy_rent_out_total_tax_on_sale,
                     !.net_proceeds_after_tax = net_proceeds_after_tax,
                     !.buy_rent_out_total_tax_savings_occupied =
                         ro.total_tax_savings_buy_rent_occupied_phase,
                     !.buy_rent_out_net_financial_gain =
                         buy_rent_out_net_financial_gain_of(net_proceeds_after_tax,
                             ro.cumulative_rental_net_cash_flow_after_tax,
                             ro.total_tax_savings_buy_rent_occupied_phase,
                             shared.initial_cash_outlay) ]
    /\ pc' = "conclusion"
    /\ UNCHANGED <<call, ri, concl, runs, fault, inp, shared, year, yr, bo>>

(***************************************************************************)
(* Conclusion, lines 488-520.  active_scenarios is the dict in insertion   *)
(* order, a sequence of <<name, net gain>>.                                *)
(***************************************************************************)
\* Changed: Buy & Rent Out is always among the scenarios.
active_scenarios_always_three(i, buy_occupy_gain, rent_invest_gain, buy_rent_out_gain) ==
    << <<"Buying & Occupying", buy_occupy_gain>>,
       <<"Renting & Investing", rent_invest_gain>>,
       <<"Buying & Renting Out", buy_rent_out_gain>> >>

\* scenarios / active_scenarios (lines 490-497): no gain is ever None.
active_scenarios_of(i, buy_occupy_gain, rent_invest_gain, buy_rent_out_gain) ==
    << <<"Buying & Occupying", buy_occupy_gain>>,
       <<"Renting & Investing", rent_invest_gain>> >>
    \o (IF RentOutModelled(i)
        THEN << <<"Buying & Renting Out", buy_rent_out_gain>> >> ELSE << >>)

\* max(active_scenarios, key = active_scenarios.get) (line 503): the first
\* scenario, in dict order, whose gain no other exceeds.
best_index_of(active) ==
    CHOOSE k \in 1 .. Len(active) :
        /\ \A j \in 1 .. Len(active) : active[j][2] <= active[k][2]
        /\ \A j \in 1 .. (k - 1) : active[j][2] < active[k][2]

\* close_threshold = 0.05 (line 508), as the fraction 1 / CLOSE_THRESHOLD_INVERSE.
CLOSE_THRESHOLD_INVERSE == 20

\* abs(value) < 1000 (line 514), in dollars.
ZERO_CASE_BAND_DOLLARS == 1000

\* The gap is exactly best_value * close_threshold and the two sides of the
\* comparison of line 511 are rounded floating-point values, which the amounts
\* in cents do not determine.  When best_value is a multiple of 5 dollars,
\* best_value / 20 and the gap are exact in binary and the two sides are equal.
comparison_decided_by_rounding(best_value, value) ==
    /\ best_value # 0
    /\ Abs(best_value) % CLOSE_THRESHOLD_INVERSE = 0
    /\ Abs(best_value - value) = Abs(best_value) \div CLOSE_THRESHOLD_INVERSE
    /\ best_value % Dollars(5) # 0

\* Changed: the threshold is best_value * close_threshold, without abs().
within_close_threshold_signed(best_value, value) ==
    IF /\ best_value # 0
       /\ Abs(best_value - value) <= (best_value - 1) \div CLOSE_THRESHOLD_INVERSE
    THEN {TRUE}
    ELSE {FALSE}

\* best_value != 0 and abs(best_value - value) < abs(best_value * close_threshold)
\* (line 511), as the set of values the test can have for amounts that are the
\* given numbers of cents: d < b / 20 exactly when d <= (b - 1) div 20, for
\* whole d and b >= 1; at d = b / 20 the floating-point rounding decides.
within_close_threshold(best_value, value) ==
    IF /\ best_value # 0
       /\ Abs(best_value - value) <= (Abs(best_value) - 1) \div CLOSE_THRESHOLD_INVERSE
    THEN {TRUE}
    ELSE IF comparison_decided_by_rounding(best_value, value) THEN BOOLEAN
    ELSE {FALSE}

\* best_value == 0 and abs(value) < 1000 (line 514)
within_zero_band(best_value, value) ==
    /\ best_value = 0
    /\ Abs(value) < Dollars(ZERO_CASE_BAND_DOLLARS)

\* is_close (lines 507-516), as the set of values the loop can leave in it: True
\* as soon as one test of one other scenario is True.
is_close_of(active, best) ==
    LET others == { j \in 1 .. Len(active) : active[j][1] # active[best][1] }
        tests  == [ j \in others |->
                      IF within_zero_band(active[best][2], active[j][2]) THEN {TRUE}
                      ELSE within_close_threshold(active[best][2], active[j][2]) ]
    IN  { c \in BOOLEAN :
            /\ c => \E j \in others : TRUE \in tests[j]
            /\ ~c => \A j \in others : FALSE \in tests[j] }

Conclusion ==
    /\ pc = "conclusion"
    /\ LET active == active_scenarios_of(inp, bo.buy_occupy_net_financial_gain,
                                         ri.rent_invest_net_financial_gain,
                                         ro.buy_rent_out_net_financial_gain)
           best == best_index_of(active)
       IN  \E is_close \in is_close_of(active, best) :
             concl' = [ active_scenarios |-> active,
                        best_scenario |-> active[best][1],
                        best_value |-> active[best][2],
                        is_close |-> is_close,
                        report |-> IF is_close THEN "close" ELSE "decisive" ]
    /\ pc' = "done"
    /\ UNCHANGED <<call, ri, runs, fault, inp, shared, year, yr, bo, ro>>

(***************************************************************************)
(* Streamlit runs the whole script again, top to bottom, on the same       *)
(* widget values: every name is assigned anew (lines 197-236, 298, 317-330).*)
(***************************************************************************)
\* How many runs of the script a behaviour holds.
MaxRuns == 2

\* Everything a run has computed.
RunResults == <<shared, yr, bo, ri, ro, concl>>

\* Scenario 1's names as the next run initialises them (lines 214-236).
RerunBuyOccupy == BuyOccupy0(inp, SharedCalculationsUnder(fault, inp))

Rerun ==
    /\ pc = "done"
    /\ runs.completed + 1 < MaxRuns
    /\ runs' = [ completed |-> runs.completed + 1, last |-> <<RunResults>> ]
    /\ shared' = SharedCalculationsUnder(fault, inp)
    /\ pc' = "buy_occupy_loop"
    /\ year' = 1
    /\ yr' = YearGlobals0
    /\ bo' = RerunBuyOccupy
    /\ ri' = RentInvest0
    /\ ro' = RentOut0
    /\ concl' = Conclusion0
    /\ UNCHANGED <<call, fault, inp>>

(***************************************************************************)
(* The script, from the first year loop to the conclusion.                 *)
(***************************************************************************)
RunScript ==
    \/ BuyOccupyYear
    \/ BuyOccupyAverages
    \/ BuyOccupyOutcome
    \/ RentInvest
    \/ RentOutSetup
    \/ RentOutYear
    \/ RentOutSale
    \/ Conclusion

Next == RunScript \/ Rerun

Spec == Init /\ [][Next]_vars

\* The sidebar after the "Model 'Buy & Rent Out' Scenario?" checkbox is
\* unticked: the Scenario 3 inputs fall back to their initial values
\* (lines 112-119), every other input stays.
InputsWithoutRentOut(i) ==
    [ i EXCEPT
        !.model_rent_out = FALSE,
        !.years_before_renting = 0,
        !.vacancy_rate = 0,
        !.prop_mgmt_fee_rate = 0,
        !.annual_landlord_costs = 0,
        !.land_value_rate = 0 ]

\* The user unticks the checkbox after a run with Scenario 3, and Streamlit
\* runs the script again from the top.
RerunWithoutRentOut ==
    /\ pc = "done"
    /\ runs.completed + 1 < MaxRuns
    /\ inp.model_rent_out
    /\ inp' = InputsWithoutRentOut(inp)
    /\ runs' = [ completed |-> runs.completed + 1, last |-> <<RunResults>> ]
    /\ shared' = SharedCalculationsUnder(fault, inp')
    /\ pc' = "buy_occupy_loop"
    /\ year' = 1
    /\ yr' = YearGlobals0
    /\ bo' = BuyOccupy0(inp', shared')
    /\ ri' = RentInvest0
    /\ ro' = RentOut0
    /\ concl' = Conclusion0
    /\ UNCHANGED <<call, fault>>

\* A run of the script and, after a run with Scenario 3, a run without it.
RentOutToggleNext == RunScript \/ RerunWithoutRentOut

RentOutToggleSpec == Init /\ [][RentOutToggleNext]_vars

\* The script from its start to the end of Scenario 2 (lines 197-313).
BuyOccupyNext == BuyOccupyYear \/ BuyOccupyAverages \/ BuyOccupyOutcome \/ RentInvest

\* The body of `for year in range(1, time_horizon_years + 1)` (line 237) waits
\* for nothing: while the loop has a year left, the interpreter runs it.
BuyOccupySpec == Init /\ [][BuyOccupyNext]_vars /\ WF_vars(BuyOccupyYear)

(***************************************************************************)
(* The loan helpers called on their own (lines 50-90): for one loan, either *)
(* one call of calculate_loan_balance, or calls of                         *)
(* calculate_interest_paid_over_period over consecutive year ranges        *)
(* (0, y1), (y1, y2), ... of the term, whose results are added up.         *)
(***************************************************************************)
\* How far before year 0 and past the end of the term years_passed ranges.
YearsSlack == 2

HelperInit ==
    /\ \E h \in HelperLoans :
         call = [ NoCall EXCEPT !.loan_amount = h.loan_amount,
                                !.annual_rate = h.annual_rate,
                                !.term_years = h.term_years ]
    /\ inp = SidebarInputs(CHOOSE p \in Profiles : p.name = "typical", "Condo", FALSE,
                           MinTimeHorizon, 1)
    /\ shared = SharedCalculations(inp)
    /\ pc = "helpers"
    /\ year = 1
    /\ yr = YearGlobals0
    /\ bo = BuyOccupy0(inp, shared)
    /\ ro = RentOut0
    /\ ri = RentInvest0
    /\ concl = Conclusion0
    /\ runs = Runs0
    /\ fault = NoFault

\* One call of calculate_loan_balance at any number of years, also before year
\* 0 or past the term, for the loan or for a principal below 0.
LoanBalanceCall ==
    /\ pc = "helpers"
    /\ call.fn = "none"
    /\ \E years_passed \in (0 - YearsSlack) .. (call.term_years + YearsSlack) :
         \E principal \in {call.loan_amount, 0 - call.loan_amount} :
           call' = [ call EXCEPT
                       !.fn = "calculate_loan_balance",
                       !.loan_amount = principal,
                       !.years_passed = years_passed,
                       !.result = calculate_loan_balance(principal, call.annual_rate,
                                                         call.term_years, years_passed) ]
    /\ UNCHANGED <<inp, shared, pc, year, yr, bo, ro, ri, concl, runs, fault>>

InterestRangeCall ==
    /\ pc = "helpers"
    /\ call.fn \in {"none", "calculate_interest_paid_over_period"}
    /\ \E end_year \in (call.end_year + 1) .. call.term_years :
         LET interest == calculate_interest_paid_over_period(call.loan_amount,
                             call.annual_rate, call.term_years, call.end_year, end_year)
         IN  call' = [ call EXCEPT
                         !.fn = "calculate_interest_paid_over_period",
                         !.start_year = call.end_year,
                         !.end_year = end_year,
                         !.result = interest,
                         !.total_interest = @ + interest ]
    /\ UNCHANGED <<inp, shared, pc, year, yr, bo, ro, ri, concl, runs, fault>>

\* One call of calculate_interest_paid_over_period over any interval, also one
\* starting before year 0, ending past the term or inverted, for the loan or
\* for a principal below 0.
InterestAnyCall ==
    /\ pc = "helpers"
    /\ call.fn = "none"
    /\ \E start_year, end_year \in (0 - YearsSlack) .. (call.term_years + YearsSlack) :
         \E principal \in {call.loan_amount, 0 - call.loan_amount} :
           call' = [ call EXCEPT
                       !.fn = "interest_over_any_period",
                       !.loan_amount = principal,
                       !.start_year = start_year,
                       !.end_year = end_year,
                       !.result = calculate_interest_paid_over_period(principal,
                                      call.annual_rate, call.term_years, start_year,
                                      end_year) ]
    /\ UNCHANGED <<inp, shared, pc, year, yr, bo, ro, ri, concl, runs, fault>>

HelperNext == LoanBalanceCall \/ InterestRangeCall \/ InterestAnyCall

HelperSpec == HelperInit /\ [][HelperNext]_vars

(***************************************************************************)
(* The Conclusion on its own (lines 488-520): the three net gains are any  *)
(* of ConclusionGains, the Buy & Rent Out gain staying 0 when the scenario *)
(* is not modelled (line 317).                                             *)
(***************************************************************************)
\* Net gains: in dollars, either side of the 5% band around +-100000, either
\* edge of the 1000 band around 0, ties and a zero best; and 9.69 and 10.20,
\* whose gap is 5% of 10.20 and which are not exact in binary.
ConclusionGains ==
    { Dollars(g) : g \in {0 - 105000, 0 - 104999, 0 - 100000, 0 - 1000, 0 - 999, 0,
                          999, 1000, 95000, 95001, 100000} }
    \cup {969, 1020}

ConclusionInit ==
    \E ptype \in PropertyTypes, rent_out \in BOOLEAN :
      \E g1, g2, g3 \in ConclusionGains :
        /\ rent_out => ptype = "Condo"
        /\ ~rent_out => g3 = 0
        /\ inp = SidebarInputs(CHOOSE p \in Profiles : p.name = "typical", ptype,
                               rent_out, MinTimeHorizon, 1)
        /\ shared = SharedCalculations(inp)
        /\ pc = "conclusion"
        /\ year = 1
        /\ yr = YearGlobals0
        /\ bo = [ BuyOccupy0(inp, shared) EXCEPT !.buy_occupy_net_financial_gain = g1 ]
        /\ ri = [ RentInvest0 EXCEPT !.rent_invest_net_financial_gain = g2 ]
        /\ ro = [ RentOut0 EXCEPT !.buy_rent_out_net_financial_gain = g3 ]
        /\ call = NoCall
        /\ concl = Conclusion0
        /\ runs = Runs0
        /\ fault = NoFault

ConclusionSpec == ConclusionInit /\ [][Conclusion]_vars

(***************************************************************************)
(* The script when a numpy_financial call raises: one run in which either  *)
(* npf.pmt raises for the loan or npf.ipmt raises for the periods of one   *)
(* year.                                                                   *)
(***************************************************************************)
\* Time horizons of the runs with an exception: before, at and after the end
\* of a 15-year term.
FaultHorizons == {1, 2, 10, 15, 16, 30}

FaultProfiles == { p \in Profiles : p.name \in {"typical", "nocap"} }

FaultInit ==
    \E profile \in FaultProfiles, ptype \in PropertyTypes, rent_out \in BOOLEAN,
       horizon \in FaultHorizons :
      \E occupied \in 1 .. max_rent_years(horizon), failing_year \in 0 .. horizon :
        /\ rent_out => ptype = "Condo"
        /\ ~rent_out => occupied = 1
        /\ fault = IF failing_year = 0 THEN [ pmt |-> TRUE, ipmt_year |-> 0 ]
                   ELSE [ pmt |-> FALSE, ipmt_year |-> failing_year ]
        /\ inp = SidebarInputs(profile, ptype, rent_out, horizon, occupied)
        /\ shared = SharedCalculationsUnder(fault, inp)
        /\ pc = "buy_occupy_loop"
        /\ year = 1
        /\ yr = YearGlobals0
        /\ bo = BuyOccupy0(inp, shared)
        /\ ro = RentOut0
        /\ call = NoCall
        /\ ri = RentInvest0
        /\ concl = Conclusion0
        /\ runs = Runs0

FaultSpec == FaultInit /\ [][RunScript]_vars

(***************************************************************************)
(* Properties                                                              *)
(***************************************************************************)
\* The Buy & Rent Out sale (lines 414-454) has run.
RentOutSold == pc \in {"conclusion", "done"} /\ RentOutModelled(inp)

\* The Future Outcomes for Buy & Occupy (lines 278-294) have run.
BuyOccupyOutcomeDone ==
    pc \in {"rent_invest", "rent_out_setup", "rent_out_loop", "rent_out_sale",
            "conclusion", "done"}

\* For every horizon H in 1..30 and every occupied span Y in 1..H, the test of
\* line 433 is true exactly when at least 2 of the years 1..Y lie among the
\* last min(5, H) years of the horizon.
ExclusionRuleAllSpans ==
    \A h \in MinTimeHorizon .. MaxTimeHorizon : \A y \in 1 .. h :
        exclusion_applies_of(h, y)
        = (Cardinality({ k \in 1 .. y : k > h - Min(5, h) /\ k <= h }) >= 2)

\* C1: in Buy & Rent Out the 500,000 exclusion is applied exactly when at
\* least 2 of the occupied years 1..Y lie inside the trailing window of
\* min(5, H) years of the horizon, and the applicable exclusion is 0 otherwise.
C1_ExclusionExactlyWhenTwoOfLastFive ==
    /\ ExclusionRuleAllSpans
    /\ RentOutSold =>
         LET h == inp.time_horizon_years
             occupied_in_window ==
                 Cardinality({ k \in 1 .. inp.years_before_renting :
                                 k > h - Min(5, h) /\ k <= h })
         IN  /\ ro.exclusion_applies = (occupied_in_window >= 2)
             /\ ro.buy_rent_out_applicable_exclusion
                  = IF occupied_in_window >= 2 THEN 500000 * CENTS ELSE 0

\* A sale with exactly 2 of the last 5 years occupied: the exclusion is applied.
C1_Witness ==
    /\ RentOutSold
    /\ inp.time_horizon_years = 6 /\ inp.years_before_renting = 3
    /\ ro.owner_years_last_5 = 2
    /\ ro.buy_rent_out_applicable_exclusion = 500000 * CENTS

\* C2 (as claimed): in Buy & Occupy the applicable exclusion is 500,000 for
\* every horizon 1..30.
C2_ExclusionAlwaysApplies ==
    BuyOccupyOutcomeDone => bo.applicable_exclusion_buy_occupy = 500000 * CENTS

\* C2 (amended): in Buy & Occupy the applicable exclusion is 500,000 for every
\* horizon 2..30 and 0 for horizon 1; the capital-gains tax is
\* max(0, capital gain - applicable exclusion) x LTCG rate and the net gain is
\* the after-tax equity less the initial outlay.
C2_ExclusionFromTwoYears ==
    BuyOccupyOutcomeDone =>
        /\ bo.applicable_exclusion_buy_occupy
             = IF inp.time_horizon_years >= 2 THEN 500000 * CENTS ELSE 0
        /\ bo.total_capital_gains_tax_buy_occupy
             = MulRate(Max(0, bo.capital_gain_buy_occupy
                              - bo.applicable_exclusion_buy_occupy), inp.ltcg_tax_rate)
        /\ bo.buy_occupy_net_financial_gain
             = bo.buy_occupy_net_equity_before_tax
               - bo.total_capital_gains_tax_buy_occupy
               - (shared.down_payment_amount + shared.closing_costs_amount)

\* A Buy & Occupy sale with a gain above the exclusion: tax is due on the part
\* above 500,000.
C2_Witness ==
    /\ BuyOccupyOutcomeDone
    /\ inp.time_horizon_years >= 2
    /\ bo.applicable_exclusion_buy_occupy = 500000 * CENTS
    /\ bo.capital_gain_buy_occupy > 500000 * CENTS
    /\ bo.total_capital_gains_tax_buy_occupy > 0

\* C3: for a loan with principal > 0, the interest of consecutive year ranges
\* (0, y1), (y1, y2), ..., (yk-1, T) adds up to the interest of (0, T).
C3_InterestPartition ==
    ( /\ call.fn = "calculate_interest_paid_over_period"
      /\ call.loan_amount > 0
      /\ call.end_year = call.term_years )
    => call.total_interest
       = calculate_interest_paid_over_period(call.loan_amount, call.annual_rate,
                                             call.term_years, 0, call.term_years)

\* The term split into more than one range, each with interest in it.
C3_Witness ==
    /\ call.fn = "calculate_interest_paid_over_period"
    /\ call.loan_amount > 0
    /\ call.end_year = call.term_years
    /\ call.start_year > 0
    /\ call.result > 0
    /\ call.total_interest > call.result

\* C4 (as claimed): for every principal, calculate_loan_balance returns the
\* principal for years elapsed <= 0 and 0 for years elapsed >= term, and never
\* a negative balance.
C4_LoanBalanceEndsAnyPrincipal ==
    call.fn = "calculate_loan_balance" =>
        /\ call.years_passed <= 0 => call.result = call.loan_amount
        /\ call.years_passed >= call.term_years => call.result = 0
        /\ call.result >= 0

\* C4: for a principal >= 0, calculate_loan_balance returns the principal for
\* years elapsed <= 0 and 0 for years elapsed >= term; for a principal < 0 it
\* returns 0 whatever the years elapsed (line 52 comes first); the balance is
\* never negative.
C4_LoanBalanceEnds ==
    call.fn = "calculate_loan_balance" =>
        /\ (call.loan_amount >= 0 /\ call.years_passed <= 0)
             => call.result = call.loan_amount
        /\ call.years_passed >= call.term_years => call.result = 0
        /\ call.loan_amount < 0 => call.result = 0
        /\ call.result >= 0

\* A loan asked for its balance at the very end of its term.
C4_Witness ==
    /\ call.fn = "calculate_loan_balance"
    /\ call.loan_amount > 0
    /\ call.years_passed = call.term_years
    /\ call.result = 0

\* The year just completed by a year loop was an owner-occupied one: any year
\* of Buy & Occupy, or a year <= years_before_renting of Buy & Rent Out.  The
\* per-year variables hold that year's values.
OwnerYearDone ==
    \/ pc = "buy_occupy_loop" /\ year > 1
    \/ pc = "buy_occupy_averages"
    \/ /\ (pc = "rent_out_loop" /\ year > 1) \/ pc = "rent_out_sale"
       /\ yr.is_owner_occupied_phase

\* The year just completed by the Buy & Rent Out loop was a rented-out one.
RentedYearDone ==
    /\ (pc = "rent_out_loop" /\ year > 1) \/ pc = "rent_out_sale"
    /\ ~yr.is_owner_occupied_phase

\* C5 (as claimed): in every owner-occupied year the tax saving is
\* max(0, deductible interest + min(property tax, SALT cap) - standard
\* deduction) x marginal rate, with no deductible interest when there is no
\* loan, and is never negative.
C5_OwnerTaxSavingFormula ==
    OwnerYearDone =>
        LET deductible_interest ==
                IF shared.loan_amount > 0 /\ inp.marginal_tax_rate > 0
                THEN yr.deductible_interest_this_year ELSE 0
            itemized == deductible_interest + Min(yr.annual_prop_tax, inp.salt_cap)
        IN  /\ yr.tax_saving_this_year
                 = MulRate(Max(0, itemized - inp.standard_deduction),
                           inp.marginal_tax_rate)
            /\ yr.tax_saving_this_year >= 0

\* C6 (as claimed): in an owner-occupied year whose tax saving is computed, the
\* deductible interest is the interest paid x min(1, cap / loan) when the loan
\* exceeds the cap, for every cap >= 0 (a cap of 0 leaves nothing deductible),
\* and the full interest otherwise; it lies between 0 and the interest paid.
C6_DeductibleInterestCapped ==
    (OwnerYearDone /\ TaxSavingComputed(inp, shared)) =>
        /\ yr.deductible_interest_this_year
             = IF shared.loan_amount > inp.mortgage_interest_limit
               THEN MulDivBig(yr.interest_paid_this_year,
                              Min(shared.loan_amount, inp.mortgage_interest_limit),
                              shared.loan_amount)
               ELSE yr.interest_paid_this_year
        /\ yr.deductible_interest_this_year >= 0
        /\ yr.deductible_interest_this_year <= yr.interest_paid_this_year

\* C7: at the Buy & Rent Out sale, recapture tax = cumulative depreciation x
\* recapture rate; gain = max(0, sale price - selling costs - (price + closing
\* costs)); the gain after recapture is the gain less the cumulative
\* depreciation, floored at 0; capital-gains tax = max(0, that gain -
\* applicable exclusion) x LTCG rate; and none of them is negative.
C7_SaleTaxes ==
    RentOutSold =>
        /\ ro.buy_rent_out_depreciation_recapture_tax
             = MulRate(ro.total_depreciation_taken, inp.recapture_tax_rate)
        /\ ro.total_gain_on_sale
             = Max(0, bo.future_property_value - bo.selling_costs_amount
                      - (inp.home_price + shared.closing_costs_amount))
        /\ ro.capital_gain_portion
             = Max(0, ro.total_gain_on_sale - ro.total_depreciation_taken)
        /\ ro.buy_rent_out_taxable_capital_gain
             = Max(0, ro.capital_gain_portion - ro.buy_rent_out_applicable_exclusion)
        /\ ro.buy_rent_out_capital_gains_tax_on_sale
             = MulRate(ro.buy_rent_out_taxable_capital_gain, inp.ltcg_tax_rate)
        /\ ro.total_gain_on_sale >= 0
        /\ ro.capital_gain_portion >= 0
        /\ ro.buy_rent_out_taxable_capital_gain >= 0
        /\ ro.buy_rent_out_depreciation_recapture_tax >= 0
        /\ ro.buy_rent_out_capital_gains_tax_on_sale >= 0

\* A sale at a loss after depreciation was taken: the gain after recapture is
\* floored at 0 and no capital-gains tax is due.
C7_Witness ==
    /\ RentOutSold
    /\ inp.property_appreciation_rate < 0
    /\ ro.total_depreciation_taken > ro.total_gain_on_sale
    /\ ro.capital_gain_portion = 0
    /\ ro.buy_rent_out_depreciation_recapture_tax > 0
    /\ ro.buy_rent_out_capital_gains_tax_on_sale = 0

\* C8: in every rented-out year, effective rent = gross rent x (1 - vacancy
\* rate); the management fee is charged on the effective rent; taxable rental
\* income = effective rent - (interest + property tax + fees + management fee
\* + landlord costs + depreciation); rental tax = taxable income x marginal
\* rate without a floor, so a loss gives a tax <= 0 and an after-tax cash flow
\* no lower than the pre-tax one.
C8_RentedYear ==
    RentedYearDone =>
        /\ yr.effective_rent
             = yr.annual_gross_rent - MulRate(yr.annual_gross_rent, inp.vacancy_rate)
        /\ yr.management_fees = MulRate(yr.effective_rent, inp.prop_mgmt_fee_rate)
        /\ yr.taxable_net_rental_income
             = yr.effective_rent
               - (yr.interest_paid_this_year + yr.annual_prop_tax + yr.annual_fees
                  + yr.management_fees + yr.landlord_costs_this_year
                  + yr.depreciation_this_year)
        /\ yr.rental_tax = MulRate(yr.taxable_net_rental_income, inp.marginal_tax_rate)
        /\ yr.taxable_net_rental_income < 0 =>
               /\ yr.rental_tax <= 0
               /\ yr.net_cash_flow_this_year
                    = yr.net_cash_flow_this_year_pre_tax - yr.rental_tax
               /\ yr.net_cash_flow_this_year >= yr.net_cash_flow_this_year_pre_tax

\* A rented-out year with a rental loss: the tax is negative and the after-tax
\* cash flow is above the pre-tax one.
C8_Witness ==
    /\ RentedYearDone
    /\ yr.taxable_net_rental_income < 0
    /\ yr.rental_tax < 0
    /\ yr.net_cash_flow_this_year > yr.net_cash_flow_this_year_pre_tax

\* C9: the yearly depreciation is home price x (1 - land-value fraction) / 27.5
\* (to the cent); after every year of the loop the cumulative depreciation is
\* the yearly amount times the number of completed years that lie after the
\* occupied span and within 27.5 years of its end, and is at most the basis
\* home price x (1 - land-value fraction).
C9_Depreciation ==
    (pc \in {"rent_out_loop", "rent_out_sale"} \/ RentOutSold) =>
        LET basis == inp.home_price - MulRate(inp.home_price, inp.land_value_rate)
            done  == IF pc = "rent_out_loop" THEN year - 1 ELSE inp.time_horizon_years
            depreciated_years ==
                { y \in 1 .. done :
                    y > inp.years_before_renting
                    /\ 2 * (y - inp.years_before_renting) <= 55 }
        IN  /\ Abs(55 * ro.annual_depreciation - 2 * basis) <= 27
            /\ ro.total_depreciation_taken
                 = ro.annual_depreciation * Cardinality(depreciated_years)
            /\ ro.total_depreciation_taken <= basis

\* A sale after more than 27.5 rental years: depreciation stopped after 27.
C9_Witness ==
    /\ RentOutSold
    /\ inp.time_horizon_years - inp.years_before_renting >= 28
    /\ ro.annual_depreciation > 0
    /\ ro.total_depreciation_taken = 27 * ro.annual_depreciation

\* C10: Buy & Rent Out net gain = (future value - loan balance - selling costs
\* - recapture tax - capital-gains tax) + cumulative after-tax rental cash flow
\* + cumulative tax savings of the occupied years - (down payment + closing
\* costs); a rented year's after-tax cash flow is effective rent - (management
\* fee + landlord costs + fees + property tax + 12 x level payment) - rental
\* tax, and the cumulative flow is the pre-tax flows less the rental taxes.
C10_RentOutNetGain ==
    /\ [](RentOutSold =>
            /\ ro.buy_rent_out_net_financial_gain
                 = (bo.future_property_value - bo.loan_balance_future
                    - bo.selling_costs_amount
                    - ro.buy_rent_out_depreciation_recapture_tax
                    - ro.buy_rent_out_capital_gains_tax_on_sale)
                   + ro.cumulative_rental_net_cash_flow_after_tax
                   + ro.total_tax_savings_buy_rent_occupied_phase
                   - (shared.down_payment_amount + shared.closing_costs_amount)
            /\ ro.cumulative_rental_net_cash_flow_after_tax
                 = ro.buy_rent_out_cumulative_rental_cash_flow_pre_tax
                   - ro.buy_rent_out_cumulative_rental_tax)
    /\ [](RentedYearDone =>
            yr.net_cash_flow_this_year
            = yr.effective_rent
              - (yr.management_fees + yr.landlord_costs_this_year + yr.annual_fees
                 + yr.annual_prop_tax + MONTHS_PER_YEAR * shared.p_and_i)
              - yr.rental_tax)
    /\ [][pc = "rent_out_loop" =>
            IF yr'.is_owner_occupied_phase
            THEN /\ ro'.total_tax_savings_buy_rent_occupied_phase
                      = ro.total_tax_savings_buy_rent_occupied_phase
                        + yr'.tax_saving_this_year
                 /\ ro'.cumulative_rental_net_cash_flow_after_tax
                      = ro.cumulative_rental_net_cash_flow_after_tax
            ELSE /\ ro'.cumulative_rental_net_cash_flow_after_tax
                      = ro.cumulative_rental_net_cash_flow_after_tax
                        + yr'.net_cash_flow_this_year
                 /\ ro'.total_tax_savings_buy_rent_occupied_phase
                      = ro.total_tax_savings_buy_rent_occupied_phase]_vars

\* A sale after occupied years with tax savings and rented years with cash
\* flow, with tax due on the sale.
C10_Witness ==
    /\ RentOutSold
    /\ ro.cumulative_rental_net_cash_flow_after_tax # 0
    /\ ro.total_tax_savings_buy_rent_occupied_phase > 0
    /\ ro.buy_rent_out_total_tax_on_sale > 0

\* Scenario 2 has run in the current run of the script.
RentInvestDone ==
    pc \in {"rent_out_setup", "rent_out_loop", "rent_out_sale", "conclusion", "done"}

\* C11: in Rent & Invest the monthly amount invested is max(0, Buy & Occupy
\* average gross monthly cost - average monthly rent) and never negative (with
\* nothing invested the monthly stream is worth 0); the initial cash outlay is
\* invested as a lump sum; investment tax = max(0, total future value - total
\* principal) x LTCG rate; net gain = total future value - tax - initial outlay.
C11_RentInvest ==
    RentInvestDone =>
        /\ ri.avg_monthly_investment_rent
             = Max(0, bo.avg_monthly_buy_cost_gross_occupy - ri.avg_monthly_rent)
        /\ ri.avg_monthly_investment_rent >= 0
        /\ ri.avg_monthly_investment_rent = 0 => ri.fv_monthly_investments_rent = 0
        /\ ri.fv_monthly_investments_rent >= 0
        /\ ri.initial_investment_rent = shared.initial_cash_outlay
        /\ ri.fv_initial_investment_rent
             = calculate_fv_lump_sum(shared.initial_cash_outlay,
                                     inp.investment_return_rate, inp.time_horizon_years)
        /\ ri.total_fv_investments_rent
             = ri.fv_initial_investment_rent + ri.fv_monthly_investments_rent
        /\ ri.total_principal_invested
             = shared.initial_cash_outlay
               + ri.avg_monthly_investment_rent * MONTHS_PER_YEAR * inp.time_horizon_years
        /\ ri.investment_tax
             = MulRate(Max(0, ri.total_fv_investments_rent - ri.total_principal_invested),
                       inp.ltcg_tax_rate)
        /\ ri.rent_invest_net_financial_gain
             = ri.total_fv_investments_rent - ri.investment_tax
               - shared.initial_cash_outlay

\* Rent above the buy cost: nothing is invested monthly, the lump sum still
\* grows and is taxed.
C11_Witness ==
    /\ RentInvestDone
    /\ ri.avg_monthly_rent > bo.avg_monthly_buy_cost_gross_occupy
    /\ ri.avg_monthly_investment_rent = 0
    /\ ri.fv_initial_investment_rent > shared.initial_cash_outlay
    /\ ri.investment_tax > 0

\* Investment return rates (0.001 percent), in increasing order, set against
\* the run's own rate.
ComparedReturnRates == <<0, 100, 7000, 10000>>

\* The Rent & Invest net gain of the run's assumption set with the investment
\* return rate replaced by r, everything else as it is.
RentInvestGainAt(r) ==
    RentInvestOf([inp EXCEPT !.investment_return_rate = r], shared.initial_cash_outlay,
                 bo.avg_monthly_buy_cost_gross_occupy).rent_invest_net_financial_gain

\* C12: for two assumption sets that differ only in the investment return
\* rate, r1 < r2, both >= 0, with a positive monthly amount invested, the Rent &
\* Invest net gain under r2 is strictly greater than under r1.
C12_ReturnRateMonotone ==
    (pc = "rent_out_setup" /\ ri.avg_monthly_investment_rent > 0) =>
        [gain \in Seq(Int) |->
            \A j, k \in 1 .. Len(gain) :
               /\ j < k => gain[j] < gain[k]
               /\ ComparedReturnRates[j] < inp.investment_return_rate
                     => gain[j] < ri.rent_invest_net_financial_gain
               /\ ComparedReturnRates[j] = inp.investment_return_rate
                     => gain[j] = ri.rent_invest_net_financial_gain
               /\ ComparedReturnRates[j] > inp.investment_return_rate
                     => gain[j] > ri.rent_invest_net_financial_gain
        ][<<RentInvestGainAt(ComparedReturnRates[1]), RentInvestGainAt(ComparedReturnRates[2]),
            RentInvestGainAt(ComparedReturnRates[3]), RentInvestGainAt(ComparedReturnRates[4])>>]

\* Scenario 2 has just run with a positive monthly investment, a positive
\* return rate and a taxed gain.
C12_Witness ==
    /\ pc = "rent_out_setup"
    /\ ri.avg_monthly_investment_rent > 0
    /\ inp.investment_return_rate > 0
    /\ ri.fv_monthly_investments_rent
         > ri.avg_monthly_investment_rent * MONTHS_PER_YEAR * inp.time_horizon_years
    /\ ri.investment_tax > 0

\* C13: the reported best scenario has the highest net gain among the active
\* scenarios; the outcome is reported close exactly when another active
\* scenario's gain is within 5% of the best gain (|best - other| < |best| x 0.05,
\* i.e. 20 x |best - other| < |best|) or, with a best gain of exactly 0, inside
\* the band |other| < 1000; otherwise it is reported decisive.  For negative best
\* gains, ties, and 2 or 3 active scenarios.  A gap of exactly 5% is decisive
\* when the amounts are exact in binary (best a multiple of 5 dollars); for
\* other amounts in cents the program's floating-point values lie on either
\* side of the threshold and either report is the comparison's.
C13_BestAndClose ==
    pc = "done" =>
        LET active == concl.active_scenarios
            others == { j \in 1 .. Len(active) : active[j][1] # concl.best_scenario }
            best   == concl.best_value
        IN  /\ Len(active) = IF RentOutModelled(inp) THEN 3 ELSE 2
            /\ active[1] = <<"Buying & Occupying", bo.buy_occupy_net_financial_gain>>
            /\ active[2] = <<"Renting & Investing", ri.rent_invest_net_financial_gain>>
            /\ RentOutModelled(inp) =>
                 active[3] = <<"Buying & Renting Out", ro.buy_rent_out_net_financial_gain>>
            /\ \E j \in 1 .. Len(active) : active[j] = <<concl.best_scenario, best>>
            /\ \A j \in 1 .. Len(active) : active[j][2] <= best
            /\ (\E j \in others :
                    \/ best # 0 /\ 20 * Abs(best - active[j][2]) < Abs(best)
                    \/ best = 0 /\ Abs(active[j][2]) < 1000 * CENTS)
                 => concl.is_close
            /\ concl.is_close
                 => \E j \in others :
                        \/ best # 0 /\ 20 * Abs(best - active[j][2]) < Abs(best)
                        \/ best = 0 /\ Abs(active[j][2]) < 1000 * CENTS
                        \/ /\ best # 0 /\ 20 * Abs(best - active[j][2]) = Abs(best)
                           /\ best % (5 * CENTS) # 0
            /\ concl.report = IF concl.is_close THEN "close" ELSE "decisive"

\* Three active scenarios, a negative best gain, and another gain strictly
\* below it yet inside the 5% band: reported close.
C13_Witness ==
    /\ pc = "done"
    /\ Len(concl.active_scenarios) = 3
    /\ concl.best_value < 0
    /\ concl.is_close
    /\ concl.report = "close"
    /\ \A j \in 1 .. 3 :
         concl.active_scenarios[j][1] # concl.best_scenario
            => concl.active_scenarios[j][2] < concl.best_value

\* The assumption set has no fee, no property tax, no closing costs, no
\* appreciation, no investment return, no rent growth and no tax.
ZeroGrowthZeroTax ==
    /\ inp.monthly_fees = 0
    /\ shared.total_prop_tax_y1_buy = 0
    /\ inp.closing_costs_rate = 0
    /\ inp.property_appreciation_rate = 0
    /\ inp.investment_return_rate = 0
    /\ inp.rent_growth_rate = 0
    /\ inp.marginal_tax_rate = 0
    /\ inp.ltcg_tax_rate = 0
    /\ inp.recapture_tax_rate = 0

\* C14: with zero growth and zero tax the terminal property value is the home
\* price; Buy & Occupy net gain = (price - remaining balance at the horizon -
\* selling costs) - down payment; Rent & Invest net gain = max(0, level monthly
\* payment - monthly rent) x 12 x horizon.
C14_ZeroGrowthZeroTax ==
    /\ (ZeroGrowthZeroTax /\ BuyOccupyOutcomeDone) =>
         /\ bo.future_property_value = inp.home_price
         /\ bo.loan_balance_future
              = calculate_loan_balance(shared.loan_amount, inp.interest_rate,
                                       inp.loan_term_years, inp.time_horizon_years)
         /\ bo.selling_costs_amount = MulRate(inp.home_price, inp.selling_costs_rate)
         /\ bo.buy_occupy_net_financial_gain
              = (inp.home_price - bo.loan_balance_future - bo.selling_costs_amount)
                - shared.down_payment_amount
    /\ (ZeroGrowthZeroTax /\ RentInvestDone) =>
         /\ ri.fv_initial_investment_rent = shared.initial_cash_outlay
         /\ ri.investment_tax = 0
         /\ ri.rent_invest_net_financial_gain
              = Max(0, shared.p_and_i - inp.rent_monthly)
                * MONTHS_PER_YEAR * inp.time_horizon_years

\* A zero-growth, zero-tax run of 10 years with a loan still owed and a level
\* payment above the rent.
C14_Witness ==
    /\ ZeroGrowthZeroTax
    /\ RentInvestDone
    /\ inp.time_horizon_years = 10
    /\ bo.loan_balance_future > 0
    /\ bo.loan_balance_future < shared.loan_amount
    /\ shared.p_and_i > inp.rent_monthly
    /\ ri.rent_invest_net_financial_gain > 0

\* The interest paid in the first n payment months of the call's loan, from the
\* amortization schedule itself.
InterestOfFirstMonths(n) ==
    AmortRun(<<call.loan_amount, 0>>, call.annual_rate,
             npf_pmt(call.annual_rate, call.term_years * MONTHS_PER_YEAR,
                     call.loan_amount),
             n)[2]

\* C16: calculate_interest_paid_over_period adds up the interest parts of
\* exactly the payment months m with start_year x 12 < m <= end_year x 12 and
\* 1 <= m <= term_years x 12; it is 0 when there is no such month, when
\* start_year >= end_year or when the principal is <= 0, and never negative,
\* also for intervals after the term and for negative start years.
C16_InterestOverAnyPeriod ==
    call.fn = "interest_over_any_period" =>
        LET months == { m \in 1 .. call.term_years * MONTHS_PER_YEAR :
                          /\ call.start_year * MONTHS_PER_YEAR < m
                          /\ m <= call.end_year * MONTHS_PER_YEAR }
            first == CHOOSE m \in months : \A k \in months : m <= k
            last  == CHOOSE m \in months : \A k \in months : k <= m
        IN  /\ call.result >= 0
            /\ call.start_year >= call.end_year => call.result = 0
            /\ call.loan_amount <= 0 => call.result = 0
            /\ months = {} => call.result = 0
            /\ (months # {} /\ call.loan_amount > 0) =>
                 /\ months = first .. last
                 /\ call.result
                      = InterestOfFirstMonths(last) - InterestOfFirstMonths(first - 1)

\* An interval from before year 0 to past the end of the term: the interest of
\* the whole loan.
C16_Witness ==
    /\ call.fn = "interest_over_any_period"
    /\ call.loan_amount > 0
    /\ call.annual_rate > 0
    /\ call.start_year < 0
    /\ call.end_year > call.term_years
    /\ call.result > 0
    /\ call.result = InterestOfFirstMonths(call.term_years * MONTHS_PER_YEAR)

\* The year the Buy & Rent Out loop has just completed.
RentOutYearDone == IF pc = "rent_out_loop" THEN year - 1 ELSE inp.time_horizon_years

\* What holds of a run in which npf.ipmt raises for one year: the interest of
\* that year is 0, every year loop runs through the horizon, and every active
\* scenario ends with a net gain in the conclusion.
InterestFailureIsLocal ==
    /\ pc # "aborted"
    /\ (pc \in {"rent_out_loop", "rent_out_sale"} /\ RentOutYearDone >= 1
          /\ (fault.pmt \/ fault.ipmt_year = RentOutYearDone))
         => yr.interest_paid_this_year = 0
    /\ pc = "buy_occupy_averages" => year = inp.time_horizon_years
    /\ pc = "rent_out_sale" => year = inp.time_horizon_years
    /\ pc = "done" =>
         /\ Len(concl.active_scenarios) = IF RentOutModelled(inp) THEN 3 ELSE 2
         /\ concl.active_scenarios[1][2] = bo.buy_occupy_net_financial_gain
         /\ concl.active_scenarios[2][2] = ri.rent_invest_net_financial_gain

\* C17 (as claimed): when the per-year interest computation or the
\* level-payment computation raises, the failure is caught where it happens and
\* its sub-result is 0 (interest of the year, level payment), the year loops
\* still run through the horizon, every active scenario ends with a net gain,
\* and the comparison is never aborted.
C17_FailureNeverAborts ==
    (fault.pmt \/ fault.ipmt_year > 0) =>
        /\ fault.pmt => shared.p_and_i = 0
        /\ InterestFailureIsLocal

\* C18: Buy & Rent Out is computed and compared exactly when the property is
\* a Condo and the scenario was selected.  Otherwise (a Co-op, for which it
\* cannot be selected, or a Condo without the selection) its names are never
\* assigned, its gain stays 0, only Buy & Occupy and Rent & Invest are compared,
\* it is never the best scenario, and whether the outcome is close depends on
\* those two gains alone.
C18_RentOutOnlyWhenSelected ==
    /\ inp.property_type = "Co-op" => ~inp.model_rent_out
    /\ pc \in {"rent_out_loop", "rent_out_sale"}
         => (inp.property_type = "Condo" /\ inp.model_rent_out)
    /\ (inp.property_type = "Condo" /\ inp.model_rent_out /\ pc \in {"conclusion", "done"})
         => /\ ro.years_occupied = inp.years_before_renting
            /\ ro.net_equity_before_tax
                 = bo.future_property_value - bo.loan_balance_future
                   - bo.selling_costs_amount
    /\ (inp.property_type = "Condo" /\ inp.model_rent_out /\ pc = "done")
         => /\ Len(concl.active_scenarios) = 3
            /\ concl.active_scenarios[3]
                 = <<"Buying & Renting Out", ro.buy_rent_out_net_financial_gain>>
    /\ ~(inp.property_type = "Condo" /\ inp.model_rent_out)
         => /\ ro = RentOut0
            /\ ro.buy_rent_out_net_financial_gain = 0
            /\ pc = "done" =>
                 LET g1 == bo.buy_occupy_net_financial_gain
                     g2 == ri.rent_invest_net_financial_gain
                 IN  /\ concl.active_scenarios
                          = << <<"Buying & Occupying", g1>>,
                               <<"Renting & Investing", g2>> >>
                     /\ concl.best_scenario # "Buying & Renting Out"
                     /\ concl.best_value = Max(g1, g2)
                     /\ concl.is_close
                          <=> \/ /\ Max(g1, g2) # 0
                                 /\ Abs(g1 - g2) <= (Abs(Max(g1, g2)) - 1) \div 20
                              \/ /\ Max(g1, g2) = 0
                                 /\ Abs(Min(g1, g2)) < 1000 * CENTS

\* A Condo without the selection has reached its conclusion: two scenarios,
\* the rent-out gain still 0 and between the two gains compared.
C18_Witness ==
    /\ pc = "done"
    /\ inp.property_type = "Condo"
    /\ ~inp.model_rent_out
    /\ Len(concl.active_scenarios) = 2
    /\ ro.buy_rent_out_net_financial_gain = 0
    /\ bo.buy_occupy_net_financial_gain < 0
    /\ ri.rent_invest_net_financial_gain > 0

\* The gross cost of year y of Buy & Occupy as the claim gives it: twelve level
\* payments, twelve times the fee of year y and, for a Condo, the property tax
\* of year y, both grown from their year-1 values by (1 + fee growth rate)^(y-1).
GrossCostOfYear(y) ==
    MONTHS_PER_YEAR * shared.p_and_i
    + MONTHS_PER_YEAR * GrowN(inp.monthly_fees, inp.maintenance_growth_rate, y - 1)
    + (IF inp.property_type = "Condo"
       THEN GrowN(shared.total_prop_tax_y1_buy, inp.maintenance_growth_rate, y - 1)
       ELSE 0)

\* C19: the Buy & Occupy year loop runs once for each year 1..horizon, in
\* order, and terminates; year y adds 12 x level payment + 12 x fee(y) +
\* property tax(y) if separately billed (Condo) to the cumulative gross cost, in
\* every year of the horizon, also after the loan term; the average gross
\* monthly cost handed to Rent & Invest is the cumulative gross cost / horizon / 12.
C19_BuyOccupyLoop ==
    /\ [](pc = "buy_occupy_loop" =>
            /\ year \in 1 .. inp.time_horizon_years
            /\ year = 1 => bo.cumulative_gross_costs_buy_occupy = 0)
    /\ [][pc = "buy_occupy_loop" =>
            /\ yr'.gross_cost_this_year = GrossCostOfYear(year)
            /\ yr'.annual_p_and_i = MONTHS_PER_YEAR * shared.p_and_i
            /\ bo'.cumulative_gross_costs_buy_occupy
                 = bo.cumulative_gross_costs_buy_occupy + GrossCostOfYear(year)
            /\ IF year < inp.time_horizon_years
               THEN pc' = "buy_occupy_loop" /\ year' = year + 1
               ELSE pc' = "buy_occupy_averages" /\ year' = year]_vars
    /\ [](pc \in {"buy_occupy_outcome", "rent_invest", "rent_out_setup"} =>
            bo.avg_monthly_buy_cost_gross_occupy
              = DivRound(DivRound(bo.cumulative_gross_costs_buy_occupy,
                                  inp.time_horizon_years), MONTHS_PER_YEAR))
    /\ [](pc = "rent_out_setup" =>
            ri.avg_monthly_investment_rent
              = Max(0, bo.avg_monthly_buy_cost_gross_occupy - ri.avg_monthly_rent))
    /\ (pc = "buy_occupy_loop") ~> (pc = "buy_occupy_averages")

\* The loop has left the last year of a 30-year horizon on a 15-year loan with
\* twelve level payments charged in it.
C19_Witness ==
    /\ pc = "buy_occupy_averages"
    /\ year = inp.time_horizon_years
    /\ inp.time_horizon_years > inp.loan_term_years
    /\ shared.p_and_i > 0
    /\ yr.annual_p_and_i = MONTHS_PER_YEAR * shared.p_and_i
    /\ yr.gross_cost_this_year > yr.annual_p_and_i
    /\ bo.cumulative_gross_costs_buy_occupy
         >= inp.time_horizon_years * MONTHS_PER_YEAR * shared.p_and_i

\* The rental accumulators of the Buy & Rent Out year loop.
RentalAccumulators(r) ==
    << r.total_depreciation_taken,
       r.buy_rent_out_cumulative_rental_tax,
       r.buy_rent_out_cumulative_rental_cash_flow_pre_tax,
       r.cumulative_rental_net_cash_flow_after_tax >>

\* C20: in the Buy & Rent Out year loop a year y <= years occupied adds to the
\* occupied-phase tax-saving total only and leaves cumulative depreciation,
\* rental tax and rental cash flow unchanged; a year y > years occupied adds to
\* the rental accumulators only and leaves the occupied-phase tax-saving total
\* unchanged; a rented year is never followed by an occupied year; fees,
\* property tax, landlord costs and rent grow once per year in both phases.
C20_PhaseSeparation ==
    [][pc = "rent_out_loop" =>
        /\ yr'.is_owner_occupied_phase = (year <= inp.years_before_renting)
        /\ IF year <= inp.years_before_renting
           THEN /\ RentalAccumulators(ro') = RentalAccumulators(ro)
                /\ ro'.total_tax_savings_buy_rent_occupied_phase
                     = ro.total_tax_savings_buy_rent_occupied_phase
                       + yr'.tax_saving_this_year
           ELSE /\ ro'.total_tax_savings_buy_rent_occupied_phase
                     = ro.total_tax_savings_buy_rent_occupied_phase
                /\ RentalAccumulators(ro') =
                     << ro.total_depreciation_taken + yr'.depreciation_this_year,
                        ro.buy_rent_out_cumulative_rental_tax + yr'.rental_tax,
                        ro.buy_rent_out_cumulative_rental_cash_flow_pre_tax
                          + yr'.net_cash_flow_this_year_pre_tax,
                        ro.cumulative_rental_net_cash_flow_after_tax
                          + yr'.net_cash_flow_this_year >>
        /\ (year > 1 /\ ~yr.is_owner_occupied_phase) => ~yr'.is_owner_occupied_phase
        /\ ro'.current_fees_rent = Grow(ro.current_fees_rent, inp.maintenance_growth_rate)
        /\ ro'.current_prop_tax_rent
             = Grow(ro.current_prop_tax_rent, inp.maintenance_growth_rate)
        /\ ro'.current_landlord_costs
             = Grow(ro.current_landlord_costs, inp.maintenance_growth_rate)
        /\ ro'.current_rental_income_monthly
             = Grow(ro.current_rental_income_monthly, inp.rent_growth_rate)]_vars

\* The loop has finished after at least two occupied and two rented years, with
\* a tax saving from the occupied phase, depreciation and rental tax from the
\* rented phase, and levels that have grown.
C20_Witness ==
    /\ pc = "rent_out_sale"
    /\ inp.years_before_renting >= 2
    /\ inp.time_horizon_years >= inp.years_before_renting + 2
    /\ ~yr.is_owner_occupied_phase
    /\ ro.total_tax_savings_buy_rent_occupied_phase > 0
    /\ ro.total_depreciation_taken > 0
    /\ ro.buy_rent_out_cumulative_rental_tax /= 0
    /\ ro.current_fees_rent > inp.monthly_fees
    /\ inp.rent_growth_rate > 0

\* The Buy & Rent Out pass is at work.
InRentOutPass == pc \in {"rent_out_setup", "rent_out_loop", "rent_out_sale"}

\* Scenarios 1 and 2 of this run are complete.
BuyOccupyAndRentInvestDone ==
    pc \in {"rent_out_setup", "rent_out_loop", "rent_out_sale", "conclusion", "done"}

\* This run has no Buy & Rent Out pass and follows a run that had one.
RunAfterRentOutUnselected == runs.completed >= 1 /\ ~inp.model_rent_out

\* No step of the Buy & Rent Out pass changes a name of Buy & Occupy or of
\* Rent & Invest, and a run without the pass ends Scenarios 1 and 2 with
\* the values the run with the pass had.
RentOutPassLeavesOthers ==
    /\ [][InRentOutPass => bo' = bo /\ ri' = ri]_vars
    /\ [](RunAfterRentOutUnselected /\ BuyOccupyAndRentInvestDone =>
            /\ bo = runs.last[1][3]
            /\ ri = runs.last[1][4])

\* C21 (as amended): the Buy & Rent Out pass leaves the Buy & Occupy and
\* Rent & Invest net gains and sub-totals as they are without the pass; Rent &
\* Invest is computed from the inputs and from Buy & Occupy's average gross
\* monthly cost, which comes from Buy & Occupy's cumulative gross cost.
C21_RentOutPassLeavesOthers ==
    /\ RentOutPassLeavesOthers
    /\ [](pc = "rent_out_setup" =>
            ri = RentInvestOf(inp, shared.initial_cash_outlay,
                    DivRound(DivRound(bo.cumulative_gross_costs_buy_occupy,
                                      inp.time_horizon_years), MONTHS_PER_YEAR)))

\* C21 (as stated): besides the above, each net gain is computed independently
\* of the other scenarios' accumulators: Rent & Invest's net gain is what it
\* would be with Buy & Occupy's cumulative gross cost left at its initial 0.
C21_NoCrossScenarioState ==
    /\ RentOutPassLeavesOthers
    /\ [](pc = "rent_out_setup" =>
            ri.rent_invest_net_financial_gain
              = RentInvestOf(inp, shared.initial_cash_outlay, 0
                            ).rent_invest_net_financial_gain)

\* A run without the pass has finished after a run whose pass took depreciation
\* and sold the property, and Rent & Invest has invested the cost difference.
C21_Witness ==
    /\ pc = "done"
    /\ RunAfterRentOutUnselected
    /\ runs.last[1][5].total_depreciation_taken > 0
    /\ runs.last[1][5].buy_rent_out_net_financial_gain /= 0
    /\ runs.last[1][1] = shared
    /\ bo.buy_occupy_net_financial_gain /= 0
    /\ ri.avg_monthly_investment_rent > 0
    /\ ri.rent_invest_net_financial_gain /= 0

====
